---- MODULE Spec2Model ----
(***************************************************************************)
(* Model of the JSONPlaceholder MCP server (src/app/server/mcp_server.py)  *)
(* and of the Content Provider client it delegates to                      *)
(* (src/app/server/services/jsonplaceholder_client.py).                    *)
(*                                                                         *)
(* The server process holds no mutable state of its own: every handler is  *)
(* a function of the request body and of what the Content Provider         *)
(* answers.  The state of the model is the last exchange the process       *)
(* served (request, response, envelope, HTTP requests sent to the          *)
(* provider and its answer, branch taken), the number of requests served   *)
(* so far, the build of the validation library the process was started     *)
(* on, and whether a client has gone through the initialize handshake.     *)
(*                                                                         *)
(* The chat agent (src/streamlit_agent/agent) is modelled next to it: the  *)
(* Protocol Client (mcp_client.py), the Completion Provider adapters       *)
(* (llm_client.py) and the orchestrator (agent_logic.py), under the        *)
(* specification SpecAgent.  Its state is one turn: the arguments and the  *)
(* answers of the peers, the lists the turn reads and builds, the calls    *)
(* made to the peers, and for stream_message the generator and the         *)
(* fragments its consumer has received.  Under the specification           *)
(* SpecSessions one process holds two orchestrators, one per chat session, *)
(* whose callers take turns in any order.  Under the specification SpecApp *)
(* the chat front-end (src/streamlit_agent/app.py) serves one browser      *)
(* session: the user changes the sidebar, sends messages and clears the    *)
(* conversation.                                                           *)
(***************************************************************************)
EXTENDS Integers, Sequences, FiniteSets, TLC

VARIABLES
    request,     \* body of the request last served
    response,    \* what the handler returned for it (or the fault it raised)
    envelope,    \* ToolResult built by call_tool for it, NoEnvelope if none
    sent,        \* HTTP requests the Content Provider client sent for it
    answered,    \* what the Content Provider did with them, Unasked if none
    dispatched,  \* the handler / branch of handle_jsonrpc that served it
    served,      \* number of requests served by the process so far
    build,       \* the pydantic build the process runs on (lax or strict)
    initialized, \* an initialize / notifications/initialized was served
    turn,        \* the orchestrator call in progress and what its peers answer
    pc,          \* where that call stands
    generator,   \* what is left to run of the generator stream_message made
    heap,        \* the caller's history list and the list the call works on
    trace,       \* calls the orchestrator made to its peers, in order
    emitted,     \* fragments the consumer received, in order
    returned,    \* what process_message returned or raised
    instances,   \* the attributes of the AgentOrchestrator of each session
    sessions,    \* each session's caller: its history, its call, its last turn
    app          \* the chat front-end: its session state and its sidebar

vars ==
    <<request, response, envelope, sent, answered, dispatched, served, build,
      initialized>>
agent_vars == <<turn, pc, generator, heap, trace, emitted, returned>>
session_vars == <<instances, sessions, app>>
all_vars == <<vars, agent_vars, session_vars>>

(***************************************************************************)
(* Python / JSON values.  Every value is a record tagged with its type.    *)
(***************************************************************************)
PyNone == [t |-> "none"]
PyStr(s) == [t |-> "str", s |-> s]
PyInt(n) == [t |-> "int", n |-> n]
PyBool(b) == [t |-> "bool", b |-> b]
PyList(items) == [t |-> "list", items |-> items]
\* A key that the JSON object does not hold.
Absent == [t |-> "absent"]

\* d.get(key): None when the key is missing.
Get(v) == IF v = Absent THEN PyNone ELSE v
\* d.get(key, default)
GetDefault(v, default) == IF v = Absent THEN default ELSE v

\* isinstance(v, dict)
IsDict(v) == v.t = "dict"
\* isinstance(v, int): bool is a subclass of int in Python.
IsInstanceInt(v) == v.t \in {"int", "bool"}
\* The number an int instance compares as (True == 1, False == 0).
IntValue(v) == IF v.t = "bool" THEN (IF v.b THEN 1 ELSE 0) ELSE v.n
\* isinstance(v, list)
IsList(v) == v.t = "list"

\* Truth value of a Python object, as `not x` and `if x` test it.
Truthy(v) ==
    CASE v.t = "none" -> FALSE
      [] v.t = "str" -> IF "s" \in DOMAIN v THEN v.s # "" ELSE TRUE
      [] v.t = "int" -> v.n # 0
      [] v.t = "bool" -> v.b
      [] v.t = "list" -> v.items # <<>>
      [] OTHER -> TRUE

\* str(v).  A str is returned as it is; None and bools have fixed spellings;
\* any other value becomes the text of its repr.
Str(v) ==
    CASE v.t = "str" -> v
      [] v.t = "none" -> PyStr("None")
      [] v.t = "bool" -> PyStr(IF v.b THEN "True" ELSE "False")
      [] OTHER -> [t |-> "str", repr |-> v]

\* f"{prefix}{v}"
Fmt(prefix, v) == [t |-> "str", fmt |-> prefix, arg |-> Str(v)]

\* Outcome of a Python call: a returned value or a raised exception.
Ok(v) == [raised |-> FALSE, value |-> v]
Raise(exc, msg) == [raised |-> TRUE, exc |-> exc, msg |-> msg]

(***************************************************************************)
(* Content Provider: what the remote API does with one HTTP request.       *)
(***************************************************************************)
InvalidJson == [t |-> "invalid_json"]
JsonObject == [t |-> "dict", resource |-> "object"]
HttpResponse(status, body) == [k |-> "response", status |-> status, body |-> body]
Failure(exc) == [k |-> "exception", exc |-> exc]

ProviderOutcomes ==
    { Failure("Timeout"), Failure("ConnectionError"),
      \* response.json() failed; requests >= 2.27 raises a RequestException
      \* subclass, older releases a plain ValueError
      Failure("JSONDecodeError(RequestException)"),
      HttpResponse(200, InvalidJson),
      HttpResponse(404, JsonObject),
      HttpResponse(500, JsonObject),
      HttpResponse(200, JsonObject),
      HttpResponse(200, PyList(<<JsonObject>>)),
      HttpResponse(200, PyList(<<>>)) }

REQUEST_TIMEOUT == 10

\* JSONPlaceholderClient._make_request.  `outcome` is what session.request
\* does.  The result holds the call's outcome and the HTTP request sent.
_make_request(method, endpoint, params, outcome) ==
    LET tried ==
            CASE outcome.k = "exception" -> Raise(outcome.exc, PyStr(outcome.exc))
              [] outcome.status = 404 -> Ok(PyNone)
              [] outcome.status >= 400 ->
                    Raise("ValueError", Fmt("HTTP ", PyInt(outcome.status)))
              [] outcome.body = InvalidJson ->
                    Raise("ValueError", PyStr("Expecting value"))
              [] OTHER -> Ok(outcome.body)
        handled ==
            IF ~tried.raised THEN tried
            ELSE CASE tried.exc = "Timeout" ->
                        Raise("ValueError",
                              [t |-> "str", fmt |-> "Request timeout after ",
                               arg |-> Str(PyInt(REQUEST_TIMEOUT)),
                               suffix |-> " seconds"])
                   [] tried.exc = "ConnectionError" ->
                        Raise("ValueError",
                              Fmt("Failed to connect to JSONPlaceholder API: ",
                                  tried.msg))
                   [] tried.exc = "JSONDecodeError(RequestException)" ->
                        Raise("ValueError", Fmt("API request failed: ", tried.msg))
                   [] OTHER ->
                        \* except ValueError: also catches the HTTP >= 400
                        \* ValueError raised inside the try block
                        Raise("ValueError", PyStr("Invalid JSON response from API"))
    IN  [result |-> handled,
         sent |-> <<[method |-> method, endpoint |-> endpoint, params |-> params]>>]

\* JSONPlaceholderClient.get_post
get_post(post_id, outcome) ==
    _make_request("GET", Fmt("/posts/", post_id), PyNone, outcome)

\* JSONPlaceholderClient.get_user
get_user(user_id, outcome) ==
    _make_request("GET", Fmt("/users/", user_id), PyNone, outcome)

\* `result if isinstance(result, list) else []` on what _make_request gave
ListOrEmpty(r) ==
    IF r.result.raised THEN r
    ELSE [r EXCEPT !.result =
             Ok(IF IsList(r.result.value) THEN r.result.value ELSE PyList(<<>>))]

\* JSONPlaceholderClient.list_posts
list_posts(user_id, outcome) ==
    LET params == IF Truthy(user_id) THEN [userId |-> user_id] ELSE PyNone
    IN  ListOrEmpty(_make_request("GET", PyStr("/posts"), params, outcome))

\* JSONPlaceholderClient.list_users
list_users(outcome) ==
    ListOrEmpty(_make_request("GET", PyStr("/users"), PyNone, outcome))

\* JSONPlaceholderClient.get_comments_for_post
get_comments_for_post(post_id, outcome) ==
    ListOrEmpty(_make_request("GET", PyStr("/comments"),
                              [postId |-> post_id], outcome))

(***************************************************************************)
(* src/app/server/mcp_server.py                                            *)
(***************************************************************************)
SUPPORTED_PROTOCOL_VERSIONS ==
    <<PyStr("2025-11-05"), PyStr("2025-06-18"), PyStr("2025-03-26")>>

\* JSON-RPC error codes used by handle_jsonrpc
INVALID_REQUEST == -32600
METHOD_NOT_FOUND == -32601
INVALID_PARAMS == -32602
INTERNAL_ERROR == -32603

\* An empty JSON object in the place of params / of arguments.
EmptyParams ==
    [t |-> "dict", protocolVersion |-> Absent, name |-> Absent, arguments |-> Absent]
EmptyArguments == [t |-> "dict", post_id |-> Absent, user_id |-> Absent]

\* class ToolResult(BaseModel): success, data = None, error = None
ToolResult(success, data, error) ==
    [success |-> success, data |-> data, error |-> error]
NoEnvelope == [success |-> "none"]

\* class ToolCall(BaseModel): name: str, arguments: dict[str, Any].
\* Constructing it validates the fields.  `lax` is the build: pydantic 1
\* turns a number given for a str field into its text, pydantic 2 refuses it.
ToolCall(name, arguments, lax) ==
    LET nameOk == name.t = "str" \/ (lax /\ name.t = "int")
    IN  IF nameOk /\ IsDict(arguments)
        THEN Ok([name |-> Str(name), arguments |-> arguments])
        ELSE Raise("ValidationError", PyStr("validation error for ToolCall"))

\* The descriptors of GET /tools.
Descriptor(name, description, properties, required) ==
    [name |-> name, description |-> description,
     inputSchema |-> [type |-> "object", properties |-> properties,
                      required |-> required]]
Property(name, description) ==
    [name |-> name, type |-> "integer", description |-> description]

\* list_tools without its last descriptor.
list_tools_short ==
    << Descriptor("get_post", "Get a specific post by ID",
                  {Property("post_id", "Post ID (1-100)")},
                  PyList(<<"post_id">>)),
       Descriptor("list_posts", "List all posts or posts by a specific user",
                  {Property("user_id", "Optional user ID to filter posts")},
                  PyList(<<>>)),
       Descriptor("get_comments_for_post", "Get all comments on a specific post",
                  {Property("post_id", "Post ID")},
                  PyList(<<"post_id">>)),
       Descriptor("get_user", "Get user information by ID",
                  {Property("user_id", "User ID (1-10)")},
                  PyList(<<"user_id">>)) >>

list_tools ==
    << Descriptor("get_post", "Get a specific post by ID",
                  {Property("post_id", "Post ID (1-100)")},
                  PyList(<<"post_id">>)),
       Descriptor("list_posts", "List all posts or posts by a specific user",
                  {Property("user_id", "Optional user ID to filter posts")},
                  PyList(<<>>)),
       Descriptor("get_comments_for_post", "Get all comments on a specific post",
                  {Property("post_id", "Post ID")},
                  PyList(<<"post_id">>)),
       Descriptor("get_user", "Get user information by ID",
                  {Property("user_id", "User ID (1-10)")},
                  PyList(<<"user_id">>)),
       Descriptor("list_users", "List all users", {}, Absent) >>

\* Bounds of the argument checks in call_tool
MIN_ID == 1
MAX_POST_ID == 100
MAX_USER_ID == 10

\* call_tool returning None where it raises ValueError.
RejectedReturnsNone(msg) == [result |-> Ok(PyNone), sent |-> <<>>]
\* A ValueError raised by call_tool itself: nothing was sent to the provider.
Rejected(msg) == [result |-> Raise("ValueError", msg), sent |-> <<>>]

\* The `if request.name == ...` chain of call_tool: the value or exception
\* of the try block, and the HTTP requests sent.
call_tool_body(req, outcome) ==
    CASE req.name = PyStr("get_post") ->
            LET post_id == Get(req.arguments.post_id)
            IN  IF ~IsInstanceInt(post_id) \/ IntValue(post_id) < MIN_ID
                   \/ IntValue(post_id) > MAX_POST_ID
                THEN Rejected(PyStr("post_id must be an integer between 1 and 100"))
                ELSE get_post(post_id, outcome)
      [] req.name = PyStr("list_posts") ->
            list_posts(Get(req.arguments.user_id), outcome)
      [] req.name = PyStr("get_comments_for_post") ->
            LET post_id == Get(req.arguments.post_id)
            IN  IF ~IsInstanceInt(post_id)
                THEN Rejected(PyStr("post_id must be an integer"))
                ELSE get_comments_for_post(post_id, outcome)
      [] req.name = PyStr("get_user") ->
            LET user_id == Get(req.arguments.user_id)
            IN  IF ~IsInstanceInt(user_id) \/ IntValue(user_id) < MIN_ID
                   \/ IntValue(user_id) > MAX_USER_ID
                THEN Rejected(PyStr("user_id must be an integer between 1 and 10"))
                ELSE get_user(user_id, outcome)
      [] req.name = PyStr("list_users") -> list_users(outcome)
      [] OTHER -> Rejected(Fmt("Unknown tool: ", req.name))

\* call_tool reporting a failure inside data, with no error text.
call_tool_error_in_data(req, outcome) ==
    LET body == call_tool_body(req, outcome)
    IN  [envelope |->
            IF body.result.raised
            THEN ToolResult(FALSE, [t |-> "dict", error |-> Str(body.result.msg)],
                            PyNone)
            ELSE ToolResult(TRUE, body.result.value, PyNone),
         sent |-> body.sent]

\* call_tool: the try block, then `except Exception`.
call_tool(req, outcome) ==
    LET body == call_tool_body(req, outcome)
    IN  [envelope |->
            IF body.result.raised
            THEN ToolResult(FALSE, PyNone, Str(body.result.msg))
            ELSE ToolResult(TRUE, body.result.value, PyNone),
         sent |-> body.sent]

\* What a handler hands back to the framework.
Response(body) == [t |-> "response", body |-> body]
\* An exception that leaves the handler (the framework answers HTTP 500).
Fault(exc) == [t |-> "fault", exc |-> exc]

JsonRpcResult(result, id) ==
    Response([jsonrpc |-> "2.0", result |-> result, error |-> Absent, id |-> id])
JsonRpcError(code, message, id) ==
    Response([jsonrpc |-> "2.0", result |-> Absent,
              error |-> [code |-> code, message |-> message], id |-> id])

\* What one run of a handler did.
Served(resp, env, reqs, branch) ==
    [response |-> resp, envelope |-> env, sent |-> reqs, branch |-> branch]

\* tool_result putting a text block in the content of a failed call too.
tool_result_always_text(result) ==
    [content |-> <<[type |-> "text", text |-> Str(result.data)]>>,
     isError |-> ~result.success]

\* The "result" member tools/call builds from the ToolResult.
tool_result(result) ==
    [content |->
        IF result.success
        THEN <<[type |-> "text", text |-> Str(result.data)]>>
        ELSE <<>>,
     isError |-> ~result.success]

\* A tools/call branch that answers a failed ToolResult with the error
\* -32603.
tools_call_failure_as_error(params, request_id, outcome, lax) ==
    IF ~IsDict(params)
    THEN Served(Fault("AttributeError"), NoEnvelope, <<>>, "tools/call")
    ELSE
    LET tool_name == Get(params.name)
        arguments == GetDefault(params.arguments, EmptyArguments)
    IN  IF ~Truthy(tool_name)
        THEN Served(JsonRpcError(INVALID_PARAMS, PyStr("Missing tool name"), request_id),
                    NoEnvelope, <<>>, "tools/call")
        ELSE LET built == ToolCall(tool_name, arguments, lax)
             IN  IF built.raised
                 THEN Served(JsonRpcError(INTERNAL_ERROR,
                                          Fmt("Tool execution failed: ", built.msg),
                                          request_id),
                             NoEnvelope, <<>>, "tools/call")
                 ELSE LET r == call_tool(built.value, outcome)
                          result == r.envelope
                      IN  IF result.success
                          THEN Served(JsonRpcResult(tool_result(result), request_id),
                                      result, r.sent, "tools/call")
                          ELSE Served(JsonRpcError(INTERNAL_ERROR,
                                                   Fmt("Tool execution failed: ",
                                                       result.error),
                                                   request_id),
                                      result, r.sent, "tools/call")

\* The tools/call branch of handle_jsonrpc.
tools_call(params, request_id, outcome, lax) ==
    IF ~IsDict(params)
    THEN \* params.get on None, a list or a str: AttributeError, outside the try
         Served(Fault("AttributeError"), NoEnvelope, <<>>, "tools/call")
    ELSE
    LET tool_name == Get(params.name)
        arguments == GetDefault(params.arguments, EmptyArguments)
    IN  IF ~Truthy(tool_name)
        THEN Served(JsonRpcError(INVALID_PARAMS, PyStr("Missing tool name"), request_id),
                    NoEnvelope, <<>>, "tools/call")
        ELSE LET built == ToolCall(tool_name, arguments, lax)
             IN  IF built.raised
                 THEN Served(JsonRpcError(INTERNAL_ERROR,
                                          Fmt("Tool execution failed: ", built.msg),
                                          request_id),
                             NoEnvelope, <<>>, "tools/call")
                 ELSE LET r == call_tool(built.value, outcome)
                          result == r.envelope
                      IN  Served(JsonRpcResult(tool_result(result), request_id),
                                 result, r.sent, "tools/call")

\* negotiated_version without the membership test: echoes whatever was asked.
negotiated_version_echo(requested_version) == requested_version

\* The version initialize answers with.
negotiated_version(requested_version) ==
    IF \E i \in DOMAIN SUPPORTED_PROTOCOL_VERSIONS :
           SUPPORTED_PROTOCOL_VERSIONS[i] = requested_version
    THEN requested_version
    ELSE SUPPORTED_PROTOCOL_VERSIONS[1]

\* The initialize branch of handle_jsonrpc.
initialize(params, request_id) ==
    LET requested_version ==
            IF IsDict(params) THEN Get(params.protocolVersion) ELSE PyNone
    IN  Served(JsonRpcResult(
                  [protocolVersion |-> negotiated_version(requested_version),
                   capabilities |-> [tools |-> <<>>],
                   serverInfo |-> [name |-> "jsonplaceholder-mcp-server",
                                   version |-> "1.0.0"]],
                  request_id),
               NoEnvelope, <<>>, "initialize")

\* method_not_found answering with the code of an invalid request.
method_not_found_as_invalid(method, request_id) ==
    Served(JsonRpcError(INVALID_REQUEST, Fmt("Method not found: ", method), request_id),
           NoEnvelope, <<>>, "method_not_found")

\* The else branch of handle_jsonrpc.
method_not_found(method, request_id) ==
    Served(JsonRpcError(METHOD_NOT_FOUND, Fmt("Method not found: ", method), request_id),
           NoEnvelope, <<>>, "method_not_found")

\* The `if method == ...` chain of handle_jsonrpc.
dispatch(method, params, request_id, outcome, lax) ==
    CASE method = PyStr("initialize") -> initialize(params, request_id)
      [] method = PyStr("notifications/initialized") ->
            Served(JsonRpcResult([empty |-> TRUE], request_id),
                   NoEnvelope, <<>>, "notifications/initialized")
      [] method = PyStr("tools/list") ->
            Served(JsonRpcResult([tools |-> list_tools], request_id),
                   NoEnvelope, <<>>, "tools/list")
      [] method = PyStr("tools/call") -> tools_call(params, request_id, outcome, lax)
      [] OTHER -> method_not_found(method, request_id)

\* The answer to a payload that is no JSON-RPC 2.0 request.
invalid_request(request_id) ==
    Served(JsonRpcError(INVALID_REQUEST, PyStr("Invalid Request"), request_id),
           NoEnvelope, <<>>, "invalid_request")

\* handle_jsonrpc dispatching on the method without testing the version.
handle_jsonrpc_unversioned(payload, outcome, lax) ==
    IF ~IsDict(payload)
    THEN invalid_request(PyNone)
    ELSE dispatch(Get(payload.method), GetDefault(payload.params, EmptyParams),
                  Get(payload.id), outcome, lax)

\* @app.post("/") handle_jsonrpc
handle_jsonrpc(payload, outcome, lax) ==
    IF ~IsDict(payload)
    THEN invalid_request(PyNone)
    ELSE LET jsonrpc_version == Get(payload.jsonrpc)
             method == Get(payload.method)
             params == GetDefault(payload.params, EmptyParams)
             request_id == Get(payload.id)
         IN  IF jsonrpc_version # PyStr("2.0")
             THEN invalid_request(request_id)
             ELSE dispatch(method, params, request_id, outcome, lax)

\* @app.post("/mcp") handle_jsonrpc_mcp
handle_jsonrpc_mcp(payload, outcome, lax) == handle_jsonrpc(payload, outcome, lax)

\* @app.get("/") root
root == list_tools

\* @app.get("/health") health_check
health_check == [status |-> "ok"]

(***************************************************************************)
(* Protocol Client (src/streamlit_agent/agent/mcp_client.py): the HTTP     *)
(* client the orchestrator reaches the tool server with.                   *)
(***************************************************************************)
\* MCPClient.__init__(server_url, timeout = 30)
MCP_TIMEOUT == 30
server_url == PyStr("http://localhost:8000")

\* f"{prefix}{v}{suffix}"
FmtS(prefix, v, suffix) ==
    [t |-> "str", fmt |-> prefix, arg |-> Str(v), suffix |-> suffix]

\* json.dumps(v): the JSON text of v.
JsonDumps(v) == [t |-> "str", json |-> v]
\* json.loads(s): the value a JSON text spells; any other text is refused.
json_loads(s) ==
    IF s.t = "str" /\ "json" \in DOMAIN s
    THEN Ok(s.json)
    ELSE Raise("JSONDecodeError", PyStr("Expecting value: line 1 column 1 (char 0)"))

\* response.text and response.json() of a body: a JSON value travels as its
\* JSON text, a str body is the raw text itself.
ResponseText(body) == IF body.t = "str" THEN body ELSE JsonDumps(body)
ResponseJson(body) == IF body.t = "str" THEN json_loads(body) ELSE Ok(body)

\* One entry of the list get_tools builds.
ClientProperty(name, description, minimum, maximum) ==
    [name |-> name, type |-> "integer", description |-> description,
     minimum |-> minimum, maximum |-> maximum]
ClientTool(name, description, properties, required) ==
    [t |-> "dict", name |-> PyStr(name), description |-> description,
     inputSchema |-> [type |-> "object", properties |-> properties,
                      required |-> required]]

\* get_tools listing a tool the server does not have, and only that one.
MCPClient_get_tools_other(fault) ==
    IF fault # Absent
    THEN Raise("RuntimeError", Fmt("Failed to fetch tools: ", PyStr(fault.exc)))
    ELSE Ok(<< ClientTool("delete_post", "Delete a post",
                          {ClientProperty("post_id", "Post ID (1-100)", 1, 100)},
                          <<"post_id">>) >>)

\* MCPClient.get_tools: the list is built in place, nothing is fetched; a
\* fault inside the try block is raised again as RuntimeError.
MCPClient_get_tools(fault) ==
    IF fault # Absent
    THEN Raise("RuntimeError", Fmt("Failed to fetch tools: ", PyStr(fault.exc)))
    ELSE Ok(<< ClientTool("get_post",
                          "Fetch a single post from JSONPlaceholder by post ID",
                          {ClientProperty("post_id", "Post ID (1-100)", 1, 100)},
                          <<"post_id">>),
               ClientTool("list_posts",
                          "Fetch all posts or posts by a specific user",
                          {ClientProperty("user_id", "User ID (1-10)", 1, 10)},
                          <<>>),
               ClientTool("get_comments_for_post",
                          "Fetch all comments for a specific post",
                          {ClientProperty("post_id", "Post ID (1-100)", 1, 100)},
                          <<"post_id">>),
               ClientTool("get_user", "Fetch a single user by ID",
                          {ClientProperty("user_id", "User ID (1-10)", 1, 10)},
                          <<"user_id">>),
               ClientTool("list_users", "Fetch all users", {}, <<>>) >>)

\* What the try block of MCPClient.call_tool does with the answer to its
\* POST: a transport failure is raised by requests.post, a status >= 400
\* raises RuntimeError, anything else is decoded as JSON.
call_tool_try(outcome) ==
    IF outcome.k = "exception"
    THEN Raise(outcome.exc, PyStr(outcome.exc))
    ELSE IF outcome.status >= 400
         THEN Raise("RuntimeError",
                    Fmt("Tool call failed: ", ResponseText(outcome.body)))
         ELSE ResponseJson(outcome.body)

\* MCPClient.call_tool with the three failures reported under one message.
MCPClient_call_tool_one_failure(tool_name, arguments, outcome) ==
    LET tried == call_tool_try(outcome)
    IN  [ result |-> IF tried.raised
                     THEN Raise("RuntimeError", PyStr("Tool call failed"))
                     ELSE tried,
          sent |-> << [method |-> "POST", url |-> FmtS("", server_url, "/call_tool"),
                       json |-> [name |-> tool_name, arguments |-> arguments],
                       timeout |-> MCP_TIMEOUT] >> ]

\* MCPClient.call_tool sending its POST once more after a timeout (its
\* failures reported under one message).
MCPClient_call_tool_retry(tool_name, arguments, outcome) ==
    LET once == MCPClient_call_tool_one_failure(tool_name, arguments, outcome)
    IN  IF outcome.k = "exception" /\ outcome.exc = "Timeout"
        THEN [once EXCEPT !.sent = @ \o @]
        ELSE once

\* MCPClient.call_tool: one POST to {server_url}/call_tool; the except
\* clauses are tried in order and each raises RuntimeError.
MCPClient_call_tool(tool_name, arguments, outcome) ==
    LET tried == call_tool_try(outcome)
    IN  [ result |->
            IF ~tried.raised THEN tried
            ELSE IF tried.exc = "Timeout"
                 THEN Raise("RuntimeError",
                            FmtS("Tool call timeout after ", PyInt(MCP_TIMEOUT), "s"))
            ELSE IF tried.exc = "ConnectionError"
                 THEN Raise("RuntimeError",
                            Fmt("Cannot reach MCP server at ", server_url))
            ELSE Raise("RuntimeError", Fmt("Tool call failed: ", tried.msg)),
          sent |-> << [method |-> "POST", url |-> FmtS("", server_url, "/call_tool"),
                       json |-> [name |-> tool_name, arguments |-> arguments],
                       timeout |-> MCP_TIMEOUT] >> ]

\* Timeout of the probe of MCPClient.health_check, in seconds.
HEALTH_TIMEOUT == 5

\* health_check taking every status below 400 for a healthy server.
MCPClient_health_check_ok(outcome) ==
    [ result |-> IF outcome.k = "exception" THEN Ok(PyBool(FALSE))
                 ELSE Ok(PyBool(outcome.status < 400)),
      sent |-> << [method |-> "GET", url |-> FmtS("", server_url, "/health"),
                   timeout |-> HEALTH_TIMEOUT] >> ]

\* MCPClient.health_check: one GET {server_url}/health; True when the
\* status is 200; `except Exception` returns False.
MCPClient_health_check(outcome) ==
    LET tried == IF outcome.k = "exception"
                 THEN Raise(outcome.exc, PyStr(outcome.exc))
                 ELSE Ok(PyBool(outcome.status = 200))
    IN  [ result |-> IF tried.raised /\ tried.exc \notin
                                          {"GeneratorExit", "KeyboardInterrupt",
                                           "SystemExit"}
                     THEN Ok(PyBool(FALSE))
                     ELSE tried,
          sent |-> << [method |-> "GET", url |-> FmtS("", server_url, "/health"),
                       timeout |-> HEALTH_TIMEOUT] >> ]

\* What the tool server may do with one GET /health.
ProbeOutcomes ==
    { Failure("Timeout"), Failure("ConnectionError"),
      HttpResponse(200, health_check),
      HttpResponse(204, PyStr("")),
      HttpResponse(404, PyStr("Not Found")),
      HttpResponse(503, PyStr("Service Unavailable")) }

\* What the tool server may do with one POST /call_tool.
ToolServerOutcomes ==
    { Failure("Timeout"), Failure("ConnectionError"),
      HttpResponse(500, PyStr("Internal Server Error")),
      HttpResponse(200, [t |-> "dict", success |-> PyBool(TRUE),
                         data |-> JsonObject, error |-> PyNone]) }

(***************************************************************************)
(* Orchestrator (src/streamlit_agent/agent/agent_logic.py) and the         *)
(* Completion Provider adapters it queries (llm_client.py).                *)
(***************************************************************************)
\* AgentOrchestrator._default_system_prompt
_default_system_prompt ==
    PyStr("You are a helpful AI assistant with access to tools")

\* AgentOrchestrator.__init__: the attributes of a new instance.  The two
\* clients are made once and never assigned again; the prompt is the one
\* given, or the default one when none or an empty one is given.
AgentOrchestrator(system_prompt) ==
    [ llm |-> "LLMClient", mcp |-> server_url,
      system_prompt |-> IF Truthy(system_prompt) THEN system_prompt
                        ELSE _default_system_prompt ]

\* update_system_prompt assigning to the class, which every instance reads.
update_system_prompt_of_class(objects, self, new_prompt) ==
    [o \in DOMAIN objects |-> [objects[o] EXCEPT !.system_prompt = new_prompt]]
\* AgentOrchestrator.update_system_prompt: `self.system_prompt = new_prompt`,
\* on the instances `objects` of the process.
update_system_prompt(objects, self, new_prompt) ==
    [objects EXCEPT ![self].system_prompt = new_prompt]

\* One message of a conversation.
Message(role, content) == [t |-> "dict", role |-> role, content |-> content]

\* What send_message returns: the reply's text and the tool calls of the
\* provider's message object (None when it has none).
Reply(content, tool_calls) ==
    [t |-> "dict", content |-> content, tool_calls |-> tool_calls,
     finish_reason |-> IF Truthy(tool_calls) THEN "tool_calls" ELSE "stop"]

\* One tool call of the provider's message object: attributes id and
\* function, each of which the object may lack.
Function(name, arguments) == [name |-> name, arguments |-> arguments]
CallObject(id, function) == [id |-> id, function |-> function]

\* `except Exception`: GeneratorExit and the other exceptions that derive
\* from BaseException alone pass through.
CatchesBaseException(exc) == TRUE
Catches(exc) == exc \notin {"GeneratorExit", "KeyboardInterrupt", "SystemExit"}

\* The lists of the call: the caller's conversation_history and the list
\* the call builds.  a + b makes a new list, a.append(x) changes a.
list_add_in_place(lists, ref, items) ==
    [lists |-> [lists EXCEPT ![ref] = @ \o items], ref |-> ref]
list_add(lists, ref, items) ==
    [lists |-> [lists EXCEPT !["messages"] = lists[ref] \o items],
     ref |-> "messages"]
list_append(lists, ref, item) == [lists EXCEPT ![ref] = Append(@, item)]

\* A dict as the sequence of its items in insertion order; d[key] = value
\* replaces the value of a key the dict holds and keeps the key's place.
DictSet(d, key, value) ==
    IF \E i \in 1..Len(d) : d[i].key = key
    THEN [i \in 1..Len(d) |->
            IF d[i].key = key THEN [key |-> key, value |-> value] ELSE d[i]]
    ELSE Append(d, [key |-> key, value |-> value])

\* _get_mcp_tools falling back on the built-in list when get_tools raises.
_get_mcp_tools_builtin(fetched) == MCPClient_get_tools(Absent).value
\* AgentOrchestrator._get_mcp_tools: an empty list when get_tools raises.
_get_mcp_tools(fetched) == IF fetched.raised THEN <<>> ELSE fetched.value

\* The loop of _extract_tool_calls over the provider's call objects:
\* objects without a function are skipped, json.loads may raise.
RECURSIVE ParsedCalls(_, _)
ParsedCalls(calls, parsed_calls) ==
    IF calls = <<>> THEN Ok(parsed_calls)
    ELSE LET call == Head(calls)
         IN  IF call.function = Absent
             THEN ParsedCalls(Tail(calls), parsed_calls)
             ELSE LET arguments ==
                          IF call.function.arguments.t = "str"
                          THEN json_loads(call.function.arguments)
                          ELSE Ok(call.function.arguments)
                  IN  IF arguments.raised THEN arguments
                      ELSE ParsedCalls(
                             Tail(calls),
                             Append(parsed_calls,
                                    [t |-> "dict",
                                     id |-> GetDefault(call.id,
                                                Str(PyInt(Len(parsed_calls)))),
                                     name |-> call.function.name,
                                     arguments |-> arguments.value]))

\* hasattr(v, "__iter__"): lists, strs and dicts can be iterated, numbers
\* cannot.
HasIter(v) == v.t \in {"list", "str", "dict"}
\* What `for call in tool_calls` visits.  The characters of a str and the
\* keys of a dict have no function attribute, as a call object without one.
Elements(v) ==
    IF v.t = "list" THEN v.items
    ELSE IF v.t = "str" /\ "s" \in DOMAIN v
         THEN [i \in 1..Len(v.s) |-> [id |-> Absent, function |-> Absent]]
         ELSE <<>>

\* AgentOrchestrator._extract_tool_calls: the list of parsed calls, or None.
_extract_tool_calls(reply) ==
    IF ~Truthy(Get(reply.tool_calls)) THEN Ok(PyNone)
    ELSE IF ~HasIter(reply.tool_calls) THEN Ok(PyNone)
    ELSE LET parsed == ParsedCalls(Elements(reply.tool_calls), <<>>)
         IN  IF parsed.raised THEN parsed
             ELSE IF parsed.value # <<>> THEN Ok(PyList(parsed.value))
             ELSE Ok(PyNone)

\* One call of self.mcp.call_tool made for the intent-th tool call.
Called(intent, r) ==
    [op |-> "call_tool", intent |-> intent, sent |-> r.sent, result |-> r.result]

\* AgentOrchestrator._execute_tool_calls: every call is made in turn, its
\* result or {"error": str(e)} stored under the call's id.
RECURSIVE _execute_tool_calls(_, _, _, _)
_execute_tool_calls(tool_calls, outcomes, results, calls) ==
    IF Len(calls) = Len(tool_calls) THEN [results |-> results, calls |-> calls]
    ELSE LET i == Len(calls) + 1
             tool_id == GetDefault(tool_calls[i].id, Get(tool_calls[i].name))
             r == MCPClient_call_tool(Get(tool_calls[i].name),
                                      GetDefault(tool_calls[i].arguments,
                                                 EmptyArguments),
                                      outcomes[i])
         IN  _execute_tool_calls(
                 tool_calls, outcomes,
                 DictSet(results, tool_id,
                         IF r.result.raised
                         THEN [t |-> "dict", error |-> Str(r.result.msg)]
                         ELSE r.result.value),
                 Append(calls, Called(i, r)))

\* A tool result appended under the role "tool".
ToolResultMessageAsTool(result) ==
    Message("tool", Fmt("Tool result: ", JsonDumps(result)))
\* The message appended for one item of tool_results.
ToolResultMessage(result) ==
    Message("user", Fmt("Tool result: ", JsonDumps(result)))

\* The working list after `messages.append(assistant_msg)` and the loop
\* over tool_results.items().
RECURSIVE AppendAll(_, _, _)
AppendAll(lists, ref, items) ==
    IF items = <<>> THEN lists
    ELSE AppendAll(list_append(lists, ref, Head(items)), ref, Tail(items))
AfterToolRound(lists, ref, reply, tool_results) ==
    AppendAll(list_append(lists, ref,
                          Message("assistant",
                                  GetDefault(reply.content, PyStr("")))),
              ref,
              [i \in 1..Len(tool_results) |->
                   ToolResultMessage(tool_results[i].value)])

\* self.llm.send_message(messages, tools=tools) as the provider saw it.
Query(messages, tools) ==
    [op |-> "send_message", messages |-> messages, tools |-> tools]
\* self.mcp.get_tools() as the Protocol Client saw it.
Fetch == [op |-> "get_tools"]

\* `return response.get("content", ""), None` with an empty list in the
\* place of None.
NoToolReturnEmptyList(reply) ==
    <<GetDefault(reply.content, PyStr("")), PyList(<<>>)>>
\* `return response.get("content", ""), None`
NoToolReturn(reply) == <<GetDefault(reply.content, PyStr("")), PyNone>>

\* `return final_response.get("content", ""), tool_calls` with the calls
\* of the final reply in the place of tool_calls.
ToolRoundReturnLatest(final_response, tool_calls) ==
    <<GetDefault(final_response.content, PyStr("")),
      Get(final_response.tool_calls)>>
\* `return final_response.get("content", ""), tool_calls`
ToolRoundReturn(final_response, tool_calls) ==
    <<GetDefault(final_response.content, PyStr("")), tool_calls>>

\* The try block of AgentOrchestrator.process_message: what it returns or
\* the exception that leaves it, the lists afterwards and the calls made.
process_message_try(self, user_message, conversation_history, lists, env) ==
    LET m == list_add(lists, conversation_history,
                      << Message("system", self.system_prompt),
                         Message("user", user_message) >>)
        tools == _get_mcp_tools(MCPClient_get_tools(env.fault))
        asked == <<Fetch, Query(m.lists[m.ref], tools)>>
        reply == env.first
        tool_calls == IF reply.raised THEN reply
                      ELSE _extract_tool_calls(reply.value)
    IN  IF tool_calls.raised
        THEN [result |-> tool_calls, lists |-> m.lists, calls |-> asked]
        ELSE IF Truthy(tool_calls.value)
        THEN LET tool_results ==
                     _execute_tool_calls(tool_calls.value.items, env.tools,
                                         <<>>, <<>>)
                 after == AfterToolRound(m.lists, m.ref, reply.value,
                                         tool_results.results)
                 final_response == env.second
             IN  [ result |-> IF final_response.raised THEN final_response
                              ELSE Ok(ToolRoundReturn(final_response.value,
                                                      tool_calls.value)),
                   lists |-> after,
                   calls |-> asked \o tool_results.calls
                                 \o <<Query(after[m.ref], tools)>> ]
        ELSE [ result |-> Ok(NoToolReturn(reply.value)),
               lists |-> m.lists, calls |-> asked ]

\* process_message without its except clause: what leaves the try block
\* reaches the caller as it is.
process_message_reraise(self, user_message, conversation_history, lists, env) ==
    process_message_try(self, user_message, conversation_history, lists, env)
\* AgentOrchestrator.process_message: `except Exception` turns whatever
\* left the try block into RuntimeError(f"Agent error: {e}").
process_message(self, user_message, conversation_history, lists, env) ==
    LET r == process_message_try(self, user_message, conversation_history, lists,
                                 env)
    IN  IF r.result.raised /\ Catches(r.result.exc)
        THEN [r EXCEPT !.result =
                  Raise("RuntimeError", Fmt("Agent error: ", r.result.msg))]
        ELSE r

\* What a generator does, in order: calls to its peers, stores to the
\* lists, and the yields at which it hands a fragment to its consumer.
Do(e) == [a |-> "do", e |-> e]
Store(lists) == [a |-> "store", lists |-> lists]
Yield(f) == [a |-> "yield", f |-> f]
Raised(r) == [a |-> "raise", exc |-> r.exc, msg |-> r.msg]

\* The fixed fragments of stream_message (their leading pictographs left
\* out).
EXECUTING_TOOLS == PyStr("Executing tools...\n")
PROCESSING_RESULTS == PyStr("\nProcessing results...\n\n")
SEPARATOR == PyStr("\n\n")

\* OpenAIClient.stream_message / GroqClient.stream_message: the stream is
\* opened, then every chunk is read and yielded when its delta holds text;
\* reading past the chunks ends the stream or raises what it failed with.
RECURSIVE ChunkLoop(_, _)
ChunkLoop(chunks, n) ==
    IF n > Len(chunks) THEN <<>>
    ELSE <<Do([op |-> "chunk", n |-> n])>>
             \o (IF Truthy(chunks[n]) THEN <<Yield(chunks[n])>> ELSE <<>>)
             \o ChunkLoop(chunks, n + 1)
llm_stream_message(messages, stream) ==
    [ atoms |-> <<Do([op |-> "stream_message", messages |-> messages])>>
                    \o ChunkLoop(stream.chunks, 1)
                    \o <<Do([op |-> "chunk", n |-> Len(stream.chunks) + 1])>>,
      result |-> IF stream.fails
                 THEN Raise("APIError", PyStr("Connection error."))
                 ELSE Ok(PyNone) ]

\* One generation in the body the Hugging Face API answers with: its
\* generated_text, and a tool_calls member the adapter never reads.
HFGenerated(generated_text, tool_calls) ==
    [t |-> "dict", generated_text |-> generated_text, tool_calls |-> tool_calls]

\* What the try block of HuggingFaceClient.send_message makes of the answer
\* to its POST, up to the text: raise_for_status, response.json(), then
\* result[0]["generated_text"] of a list, result.get("generated_text", "")
\* of anything else.
HuggingFaceClient_text(outcome) ==
    IF outcome.k = "exception" THEN Raise(outcome.exc, PyStr(outcome.exc))
    ELSE IF outcome.status >= 400
    THEN Raise("HTTPError", Fmt("Error for url, status ", PyInt(outcome.status)))
    ELSE IF outcome.body = InvalidJson
    THEN Raise("JSONDecodeError", PyStr("Expecting value: line 1 column 1 (char 0)"))
    ELSE LET result == outcome.body
         IN  IF IsList(result)
             THEN IF result.items = <<>>
                  THEN Raise("IndexError", PyStr("list index out of range"))
                  ELSE IF result.items[1].generated_text = Absent
                       THEN Raise("KeyError", PyStr("'generated_text'"))
                       ELSE Ok(result.items[1].generated_text)
             ELSE Ok(GetDefault(result.generated_text, PyStr("")))

\* send_message handing on the tool_calls member of the body.
HuggingFaceClient_send_message_with_calls(outcome) ==
    LET text == HuggingFaceClient_text(outcome)
    IN  IF text.raised THEN text
        ELSE Ok(Reply(text.value,
                      IF IsList(outcome.body)
                      THEN Get(outcome.body.items[1].tool_calls)
                      ELSE Get(outcome.body.tool_calls)))

\* HuggingFaceClient.send_message: the text with "tool_calls": None;
\* `except Exception: raise` hands on whatever was raised.
HuggingFaceClient_send_message(outcome) ==
    LET text == HuggingFaceClient_text(outcome)
    IN  IF text.raised THEN text ELSE Ok(Reply(text.value, PyNone))

\* HuggingFaceClient.stream_message: the POST is made, then every line of
\* the body is read; an empty line is skipped, any other is decoded and its
\* token's text yielded when it has one, empty or not.  Reading past the
\* lines ends the stream or raises what it failed with (the connection, or
\* a line that is no JSON).
RECURSIVE LineLoop(_, _)
LineLoop(lines, n) ==
    IF n > Len(lines) THEN <<>>
    ELSE <<Do([op |-> "chunk", n |-> n])>>
             \o (IF Truthy(lines[n])
                    /\ json_loads(lines[n]).value.token # Absent
                    /\ json_loads(lines[n]).value.token.text # Absent
                 THEN <<Yield(json_loads(lines[n]).value.token.text)>>
                 ELSE <<>>)
             \o LineLoop(lines, n + 1)
HuggingFaceClient_stream_message(messages, stream) ==
    [ atoms |-> <<Do([op |-> "stream_message", messages |-> messages])>>
                    \o LineLoop(stream.chunks, 1)
                    \o <<Do([op |-> "chunk", n |-> Len(stream.chunks) + 1])>>,
      result |-> IF stream.fails
                 THEN Raise("ChunkedEncodingError", PyStr("Connection broken."))
                 ELSE Ok(PyNone) ]

\* self.llm.stream_message(messages): self.llm is the adapter LLMClient.create
\* made for the provider.
self_llm_stream_message(provider, messages, stream) ==
    IF provider = "huggingface"
    THEN HuggingFaceClient_stream_message(messages, stream)
    ELSE llm_stream_message(messages, stream)

\* The try block of AgentOrchestrator.stream_message.
stream_message_try(self, user_message, conversation_history, lists, env) ==
    LET m == list_add(lists, conversation_history,
                      << Message("system", self.system_prompt),
                         Message("user", user_message) >>)
        tools == _get_mcp_tools(MCPClient_get_tools(env.fault))
        start == <<Store(m.lists), Do(Fetch)>>
        reply == env.first
        tool_calls == IF reply.raised THEN reply
                      ELSE _extract_tool_calls(reply.value)
    IN  IF tools = <<>>
        THEN LET passed == self_llm_stream_message(env.provider, m.lists[m.ref],
                                                  env.stream)
             IN  [atoms |-> start \o passed.atoms, result |-> passed.result]
        ELSE IF tool_calls.raised
        THEN [ atoms |-> start \o <<Do(Query(m.lists[m.ref], tools))>>,
               result |-> tool_calls ]
        ELSE IF Truthy(tool_calls.value)
        THEN LET tool_results ==
                     _execute_tool_calls(tool_calls.value.items, env.tools,
                                         <<>>, <<>>)
                 after == AfterToolRound(m.lists, m.ref, reply.value,
                                         tool_results.results)
                 final == self_llm_stream_message(env.provider, after[m.ref],
                                                 env.stream)
             IN  [ atoms |->
                     start \o <<Do(Query(m.lists[m.ref], tools))>>
                       \o (IF Truthy(Get(reply.value.content))
                           THEN <<Yield(GetDefault(reply.value.content, PyStr(""))),
                                  Yield(SEPARATOR)>>
                           ELSE <<>>)
                       \o <<Yield(EXECUTING_TOOLS)>>
                       \o [i \in 1..Len(tool_results.calls) |->
                              Do(tool_results.calls[i])]
                       \o <<Store(after), Yield(PROCESSING_RESULTS)>>
                       \o final.atoms,
                   result |-> final.result ]
        ELSE LET direct == self_llm_stream_message(env.provider, m.lists[m.ref],
                                                  env.stream)
             IN  [ atoms |-> start \o <<Do(Query(m.lists[m.ref], tools))>>
                                 \o direct.atoms,
                   result |-> direct.result ]

\* AgentOrchestrator.stream_message: `except Exception` yields two
\* fragments for whatever left the try block.
stream_message(self, user_message, conversation_history, lists, env) ==
    LET r == stream_message_try(self, user_message, conversation_history, lists,
                                env)
    IN  r.atoms
          \o (IF ~r.result.raised THEN <<>>
              ELSE IF Catches(r.result.exc)
              THEN << Yield(Fmt("Error: ", r.result.msg)),
                      Yield(Fmt("\n\n**Error**: ", r.result.msg)) >>
              ELSE <<Raised(r.result)>>)

\* generator.close(): GeneratorExit is raised at the yield the generator is
\* suspended at; a handler that catches it and yields again makes close()
\* raise RuntimeError.
generator_close == IF Catches("GeneratorExit") THEN "ignored_exit" ELSE "closed"

(***************************************************************************)
(* Requests the process is given.                                          *)
(***************************************************************************)
\* Largest number of requests one behaviour serves.
MaxServed == 2

\* Values a caller may put under post_id / user_id: the ends of both ranges
\* and their neighbours, the two booleans, and a numeral in a string.
ArgValues ==
    { PyInt(MIN_ID - 1), PyInt(MIN_ID), PyInt(MAX_USER_ID), PyInt(MAX_USER_ID + 1),
      PyInt(MAX_POST_ID), PyInt(MAX_POST_ID + 1),
      PyBool(TRUE), PyBool(FALSE), PyStr("1") }

PostArguments == {[t |-> "dict", post_id |-> v, user_id |-> Absent] : v \in ArgValues}
UserArguments == {[t |-> "dict", post_id |-> Absent, user_id |-> v] : v \in ArgValues}

ToolNames ==
    { PyStr("get_post"), PyStr("list_posts"), PyStr("get_comments_for_post"),
      PyStr("get_user"), PyStr("list_users") }

\* Strings given as a tool name: the five tools, the empty string, a string
\* of blanks, and a name the server does not know.
NameStrings == ToolNames \cup {PyStr(""), PyStr("  "), PyStr("delete_post")}

\* The argument objects tried with a tool name.
ArgumentsFor(name) ==
    CASE name \in {PyStr("get_post"), PyStr("get_comments_for_post")} ->
            {EmptyArguments} \cup PostArguments
      [] name \in {PyStr("get_user"), PyStr("list_posts")} ->
            {EmptyArguments} \cup UserArguments
      [] OTHER -> {EmptyArguments}

\* Bodies of POST /call_tool that pass the framework's ToolCall validation.
ToolCalls ==
    UNION { {[name |-> n, arguments |-> a] : a \in ArgumentsFor(n)} : n \in NameStrings }

CallParamsOf(name, arguments) ==
    [t |-> "dict", protocolVersion |-> Absent, name |-> name, arguments |-> arguments]

\* params objects of tools/call: every ToolCall above, the same names with
\* arguments missing or not an object, and names that are missing, null or
\* a number.
CallParams ==
    UNION { {CallParamsOf(n, a) :
                a \in ArgumentsFor(n) \cup {Absent, PyNone, PyStr("x")}} :
            n \in NameStrings \cup {Absent, PyNone, PyInt(7)} }

\* params objects of initialize
InitParams ==
    { [t |-> "dict", protocolVersion |-> v, name |-> Absent, arguments |-> Absent] :
        v \in { SUPPORTED_PROTOCOL_VERSIONS[i] : i \in DOMAIN SUPPORTED_PROTOCOL_VERSIONS }
              \cup {PyStr("2099-01-01"), PyInt(20251105), PyNone, Absent} }

\* params that are no JSON object
NonObjects == {PyNone, PyStr("x"), PyList(<<PyInt(1)>>)}

\* params tried with every method
CommonParams ==
    {Absent} \cup NonObjects \cup InitParams
      \cup {CallParamsOf(PyStr("get_user"), CHOOSE a \in UserArguments : a.user_id = PyInt(MIN_ID))}

Methods ==
    { PyStr("initialize"), PyStr("notifications/initialized"), PyStr("tools/list"),
      PyStr("tools/call"), PyStr("resources/list"), Absent }

Ids == {Absent, PyInt(7)}

Payload(jsonrpc, method, params, id) ==
    [t |-> "dict", jsonrpc |-> jsonrpc, method |-> method, params |-> params, id |-> id]

\* JSON bodies POSTed to / and /mcp.
Payloads ==
    NonObjects
      \cup { Payload(v, m, p, i) :
               v \in {PyStr("1.0"), PyInt(2), Absent}, m \in Methods,
               p \in {Absent, CallParamsOf(PyStr("list_users"), EmptyArguments)},
               i \in Ids }
      \cup { Payload(PyStr("2.0"), m, p, i) : m \in Methods, p \in CommonParams, i \in Ids }
      \cup { Payload(PyStr("2.0"), PyStr("tools/call"), p, i) : p \in CallParams, i \in Ids }

\* Placeholder for the provider's answer in a run that sends it nothing.
Unasked == Failure("unasked")

\* The answers the provider may give to the requests a handler run sends:
\* one is drawn only when a request is sent.
AnswersTo(reqs) == IF reqs = <<>> THEN {Unasked} ELSE ProviderOutcomes

NoBody == [t |-> "absent"]

\* The chat sessions of one process, each with an orchestrator of its own.
Sessions == {"A", "B"}
NoCall == [user_message |-> PyNone]
NoRun == [result |-> "none"]
\* A session before its first turn: an empty history, no call in progress.
\* `alone` is the instance and the history the session has when no other
\* session exists: only its own steps change them.
NewSession ==
    [ history |-> <<>>, call |-> NoCall, last |-> NoRun, turns |-> 0,
      alone |-> [self |-> AgentOrchestrator(PyNone), history |-> <<>>] ]

(***************************************************************************)
(* State machine: one action per route of the application.                 *)
(***************************************************************************)
(***************************************************************************)
(* Chat front-end (src/streamlit_agent/app.py).                            *)
(***************************************************************************)
\* initialize_session_state: st.session_state of a new browser session.
initialize_session_state ==
    [messages |-> <<>>, agent |-> PyNone, agent_error |-> PyNone]

\* The dict render_sidebar returns.
Config(provider, api_key, model, url, prompt) ==
    [ llm_provider |-> provider, llm_api_key |-> api_key, llm_model |-> model,
      mcp_server_url |-> url, system_prompt |-> prompt ]
\* load_config with LLM_API_KEY set: the values of the widgets at first.
load_config ==
    Config("openai", PyStr("sk-1"), "gpt-4o-mini", server_url,
           _default_system_prompt)
\* What the user may set the sidebar to: the first values, the same with
\* another provider, model, server URL or system prompt, and the first
\* values without an API key.
Configs ==
    { load_config,
      [load_config EXCEPT !.llm_provider = "huggingface"],
      [load_config EXCEPT !.llm_model = "gpt-4o"],
      [load_config EXCEPT !.mcp_server_url = PyStr("http://tools:8000")],
      [load_config EXCEPT !.system_prompt = PyStr("Answer in one sentence.")],
      [load_config EXCEPT !.llm_api_key = PyStr("")] }

\* The AgentOrchestrator made from a config: its adapter, its Protocol
\* Client and its prompt.  `id` tells the objects of the process apart.
NewAgent(config, id) ==
    [ t |-> "AgentOrchestrator", id |-> id,
      llm |-> [provider |-> config.llm_provider, api_key |-> config.llm_api_key,
               model |-> config.llm_model],
      mcp |-> config.mcp_server_url,
      system_prompt |-> AgentOrchestrator(config.system_prompt).system_prompt ]

\* create_agent making a new orchestrator whenever the cached one was made
\* from another config.
create_agent_for_config(session_state, config, built) ==
    IF /\ session_state.agent # PyNone
       /\ session_state.agent = NewAgent(config, session_state.agent.id)
    THEN [result |-> Ok(session_state.agent), session_state |-> session_state]
    ELSE IF ~Truthy(config.llm_api_key)
    THEN [ result |-> Raise("ValueError", PyStr("LLM API key is required.")),
           session_state |-> session_state ]
    ELSE IF built.raised
    THEN [ result |-> built,
           session_state |-> [session_state EXCEPT !.agent_error = Str(built.msg)] ]
    ELSE [ result |-> built,
           session_state |-> [session_state EXCEPT !.agent = built.value] ]

\* create_agent(config).  `built` is what AgentOrchestrator(...) gives when
\* it is called: the new object, or the exception of an adapter that cannot
\* be made.
create_agent(session_state, config, built) ==
    IF session_state.agent # PyNone
    THEN [result |-> Ok(session_state.agent), session_state |-> session_state]
    ELSE IF ~Truthy(config.llm_api_key)
    THEN [ result |-> Raise("ValueError", PyStr("LLM API key is required.")),
           session_state |-> session_state ]
    ELSE IF built.raised
    THEN [ result |-> built,
           session_state |-> [session_state EXCEPT !.agent_error = Str(built.msg)] ]
    ELSE [ result |-> built,
           session_state |-> [session_state EXCEPT !.agent = built.value] ]

\* process_user_input(user_input, config).  `streamed` is what consuming
\* agent.stream_message gives: the full response, or an exception.  The
\* result holds the session state afterwards and what create_agent gave.
process_user_input(session_state, user_input, config, built, streamed) ==
    LET appended == [session_state EXCEPT
                        !.messages = Append(@, Message("user", user_input))]
        made == create_agent(appended, config, built)
    IN  IF made.result.raised
        THEN [ session_state |->
                  [made.session_state EXCEPT
                      !.messages = SubSeq(@, 1, Len(@) - 1)],
               agent |-> made.result ]
        ELSE [ session_state |->
                  [made.session_state EXCEPT
                      !.messages =
                          Append(@, Message("assistant",
                                            IF streamed.raised
                                            THEN Fmt("**Error:** ", streamed.msg)
                                            ELSE streamed.value))],
               agent |-> made.result ]

\* The front-end of a new browser session: nothing was sent yet.
NewApp ==
    [ session_state |-> initialize_session_state, config |-> load_config,
      inputs |-> 0, made |-> 0, event |-> "none", agent |-> Ok(PyNone) ]

Init ==
    /\ request = NoBody
    /\ response = [t |-> "none"]
    /\ envelope = NoEnvelope
    /\ sent = <<>>
    /\ answered = Unasked
    /\ dispatched = "startup"
    /\ served = 0
    /\ build \in BOOLEAN
    /\ initialized = FALSE
    /\ turn = [method |-> "none"]
    /\ pc = "idle"
    /\ generator = <<>>
    /\ heap = [history |-> <<>>, messages |-> <<>>]
    /\ trace = <<>>
    /\ emitted = <<>>
    /\ returned = [t |-> "absent"]
    /\ instances = [s \in Sessions |-> AgentOrchestrator(PyNone)]
    /\ sessions = [s \in Sessions |-> NewSession]
    /\ app = NewApp

\* One run of a route: the body it was given, what the provider answered
\* and what the handler did.
Run(body, outcome, run) == [body |-> body, answer |-> outcome, run |-> run]
\* The branches that make up the handshake of a client.
Handshake == {"initialize", "notifications/initialized"}

\* Every run of POST / on each build: any payload, with any answer of the
\* provider to the requests the run sends.
handle_jsonrpc_runs ==
    [ lax \in BOOLEAN |->
        UNION { { Run(body, outcome, handle_jsonrpc(body, outcome, lax)) :
                    outcome \in AnswersTo(handle_jsonrpc(body, Unasked, lax).sent) } :
                body \in Payloads } ]

\* Every run of POST /mcp on each build.
handle_jsonrpc_mcp_runs ==
    [ lax \in BOOLEAN |->
        UNION { { Run(body, outcome, handle_jsonrpc_mcp(body, outcome, lax)) :
                    outcome \in AnswersTo(handle_jsonrpc_mcp(body, Unasked, lax).sent) } :
                body \in Payloads } ]

\* What POST /call_tool did: the ToolResult is the response body.
call_tool_route(req, outcome) ==
    LET r == call_tool(req, outcome)
    IN  Served(Response(r.envelope), r.envelope, r.sent, "call_tool")

\* Every run of POST /call_tool.
call_tool_runs ==
    UNION { { Run(req, outcome, call_tool_route(req, outcome)) :
                outcome \in AnswersTo(call_tool(req, Unasked).sent) } :
            req \in ToolCalls }

\* The runs of the GET routes.
list_tools_runs ==
    { Run(NoBody, Unasked,
          Served(Response(PyList(list_tools)), NoEnvelope, <<>>, "list_tools")) }
root_runs ==
    { Run(NoBody, Unasked, Served(Response(PyList(root)), NoEnvelope, <<>>, "root")) }
health_check_runs ==
    { Run(NoBody, Unasked,
          Served(Response(health_check), NoEnvelope, <<>>, "health_check")) }

\* POST / of a dispatcher that refuses tools/call until a client has gone
\* through the handshake.
PostRootAfterHandshake ==
    /\ served < MaxServed
    /\ \E x \in handle_jsonrpc_runs[build] :
          /\ request' = x.body
          /\ response' =
                IF x.run.branch = "tools/call" /\ ~initialized
                THEN JsonRpcError(INVALID_REQUEST, PyStr("Server not initialized"),
                                  Get(x.body.id))
                ELSE x.run.response
          /\ envelope' = x.run.envelope
          /\ sent' = x.run.sent
          /\ answered' = x.answer
          /\ dispatched' = x.run.branch
          /\ served' = served + 1
          /\ build' = build
          /\ initialized' = (initialized \/ x.run.branch \in Handshake)
          /\ UNCHANGED agent_vars
          /\ UNCHANGED session_vars

\* POST /
PostRoot ==
    /\ served < MaxServed
    /\ \E x \in handle_jsonrpc_runs[build] :
          /\ request' = x.body
          /\ response' = x.run.response
          /\ envelope' = x.run.envelope
          /\ sent' = x.run.sent
          /\ answered' = x.answer
          /\ dispatched' = x.run.branch
          /\ served' = served + 1
          /\ build' = build
          /\ initialized' = (initialized \/ x.run.branch \in Handshake)
          /\ UNCHANGED agent_vars
          /\ UNCHANGED session_vars

\* POST /mcp
PostMcp ==
    /\ served < MaxServed
    /\ \E x \in handle_jsonrpc_mcp_runs[build] :
          /\ request' = x.body
          /\ response' = x.run.response
          /\ envelope' = x.run.envelope
          /\ sent' = x.run.sent
          /\ answered' = x.answer
          /\ dispatched' = x.run.branch
          /\ served' = served + 1
          /\ build' = build
          /\ initialized' = (initialized \/ x.run.branch \in Handshake)
          /\ UNCHANGED agent_vars
          /\ UNCHANGED session_vars

\* POST /call_tool
PostCallTool ==
    /\ served < MaxServed
    /\ \E x \in call_tool_runs :
          /\ request' = x.body
          /\ response' = x.run.response
          /\ envelope' = x.run.envelope
          /\ sent' = x.run.sent
          /\ answered' = x.answer
          /\ dispatched' = x.run.branch
          /\ served' = served + 1
          /\ UNCHANGED <<build, initialized>>
          /\ UNCHANGED agent_vars
          /\ UNCHANGED session_vars

\* GET /tools
GetTools ==
    /\ served < MaxServed
    /\ \E x \in list_tools_runs :
          /\ request' = x.body
          /\ response' = x.run.response
          /\ envelope' = x.run.envelope
          /\ sent' = x.run.sent
          /\ answered' = x.answer
          /\ dispatched' = x.run.branch
          /\ served' = served + 1
          /\ UNCHANGED <<build, initialized>>
          /\ UNCHANGED agent_vars
          /\ UNCHANGED session_vars

\* GET /
GetRoot ==
    /\ served < MaxServed
    /\ \E x \in root_runs :
          /\ request' = x.body
          /\ response' = x.run.response
          /\ envelope' = x.run.envelope
          /\ sent' = x.run.sent
          /\ answered' = x.answer
          /\ dispatched' = x.run.branch
          /\ served' = served + 1
          /\ UNCHANGED <<build, initialized>>
          /\ UNCHANGED agent_vars
          /\ UNCHANGED session_vars

\* GET /health
GetHealth ==
    /\ served < MaxServed
    /\ \E x \in health_check_runs :
          /\ request' = x.body
          /\ response' = x.run.response
          /\ envelope' = x.run.envelope
          /\ sent' = x.run.sent
          /\ answered' = x.answer
          /\ dispatched' = x.run.branch
          /\ served' = served + 1
          /\ UNCHANGED <<build, initialized>>
          /\ UNCHANGED agent_vars
          /\ UNCHANGED session_vars

Next ==
    \/ PostRoot
    \/ PostMcp
    \/ PostCallTool
    \/ GetTools
    \/ GetRoot
    \/ GetHealth

Spec == Init /\ [][Next]_all_vars

(***************************************************************************)
(* Turns the orchestrator is given and what its peers answer in them.      *)
(***************************************************************************)
\* Largest number of tool calls in one reply of the Completion Provider.
MaxIntents == 2
\* Largest number of chunks in one stream of the Completion Provider.
MaxChunks == 3

\* The sequences over S of length 1..n.
SeqsUpTo(S, n) == UNION { [1..k -> S] : k \in 1..n }

\* conversation_history as the caller holds it when the turn starts.
Histories ==
    { <<>>,
      << Message("user", PyStr("earlier question")),
         Message("assistant", PyStr("earlier answer")) >> }
UserMessages == { PyStr("show me post 1") }

\* The lists when the call starts: the caller's history, and nothing yet
\* under the list the call is going to build.
ListsAtCall(history) == [history |-> history, messages |-> <<>>]

\* Tool calls a provider's message object may carry: one whose arguments
\* are JSON text, one whose arguments are a dict already, one without a
\* function, one whose arguments are not JSON.  A reply may hold the same
\* call twice, and so two calls with equal ids.
CallObjects ==
    { CallObject(PyStr("call_a"),
                 Function(PyStr("get_post"),
                          JsonDumps([t |-> "dict", post_id |-> PyInt(1),
                                     user_id |-> Absent]))),
      CallObject(PyStr("call_b"), Function(PyStr("list_users"), EmptyArguments)),
      CallObject(PyStr("call_c"), Absent),
      CallObject(PyStr("call_d"), Function(PyStr("get_post"), PyStr("{post_id"))) }

\* A query the turn never makes.
NotQueried == Raise("NotQueried", PyNone)
ProviderFault == Raise("APIError", PyStr("Connection error."))

\* Replies to the first query: a failure, or a text (possibly empty) with
\* no, an empty or a non-empty list of tool calls, or with something in the
\* place of the list that cannot be iterated, or a str.
FirstReplies ==
    {ProviderFault}
      \cup { Ok(Reply(c, tc)) :
               c \in {PyStr(""), PyStr("Let me look that up.")},
               tc \in {PyNone, PyList(<<>>), PyInt(1), PyStr("none")}
                        \cup { PyList(s) : s \in SeqsUpTo(CallObjects, MaxIntents) } }

\* Replies to the query made after a tool round: the second reply may carry
\* tool calls of its own.
SecondReplies ==
    { ProviderFault,
      Ok(Reply(PyStr("Post 1 says ..."), PyNone)),
      Ok(Reply(PyStr("One more lookup"),
               PyList(<<CallObject(PyStr("call_e"),
                                   Function(PyStr("list_users"),
                                            EmptyArguments))>>))) }

\* Streams of the provider: the first chunks of a stream whose second
\* chunk has an empty delta; the stream ends after them or fails there.
Chunks == <<PyStr("Post"), PyStr(""), PyStr(" 1"), PyStr(" says"), PyStr(" ...")>>
ChunkStreams ==
    { [chunks |-> SubSeq(Chunks, 1, k), fails |-> f] :
        k \in 0..MaxChunks, f \in BOOLEAN }
NoStream == [chunks |-> <<>>, fails |-> FALSE]

\* Faults of get_tools: none, or an exception inside its try block.
Faults == {Absent, Failure("Exception")}

\* The tool calls the orchestrator executes for a first reply.
Intents(first) ==
    IF first.raised THEN <<>>
    ELSE LET tool_calls == _extract_tool_calls(first.value)
         IN  IF tool_calls.raised \/ ~Truthy(tool_calls.value) THEN <<>>
             ELSE tool_calls.value.items
\* Whether the turn gets past the first query and the extraction.
FirstResolved(first) ==
    /\ ~first.raised
    /\ ~_extract_tool_calls(first.value).raised

\* Replies to a query that offers `tools`.  send_message puts the tools
\* parameter into the request only `if tools:`, and a provider that was
\* offered no tool has none to call: its reply carries no tool call.
RepliesTo(tools) ==
    IF tools # <<>> THEN FirstReplies
    ELSE { r \in FirstReplies :
             \/ r.raised
             \/ ~IsList(r.value.tool_calls)
             \/ r.value.tool_calls.items = <<>> }

\* What the peers answer in one call of process_message: answers are drawn
\* only for the calls the turn makes.
ProcessEnvs ==
    UNION { UNION { { [fault |-> fault, first |-> first, tools |-> tools,
                       second |-> second, stream |-> NoStream,
                       provider |-> "openai", answer |-> Unasked] :
                        tools \in [1..Len(Intents(first)) -> ToolServerOutcomes],
                        second \in IF Intents(first) = <<>> THEN {NotQueried}
                                   ELSE SecondReplies } :
                    first \in RepliesTo(_get_mcp_tools(MCPClient_get_tools(fault))) } :
            fault \in Faults }

\* stream_message executes tool calls through the same _execute_tool_calls:
\* for it one failing and one successful answer are drawn.
StreamToolOutcomes ==
    { o \in ToolServerOutcomes : o.k = "exception" => o.exc = "Timeout" }
        \ { o \in ToolServerOutcomes : o.k = "response" /\ o.status >= 400 }

\* What the peers answer in one call of stream_message.
StreamEnvs ==
    { [fault |-> Failure("Exception"), first |-> NotQueried, tools |-> <<>>,
       second |-> NotQueried, stream |-> stream,
       provider |-> "openai", answer |-> Unasked] : stream \in ChunkStreams }
      \cup UNION { { [fault |-> Absent, first |-> first, tools |-> tools,
                      second |-> NotQueried, stream |-> stream,
                      provider |-> "openai", answer |-> Unasked] :
                       tools \in [1..Len(Intents(first)) -> StreamToolOutcomes],
                       stream \in IF FirstResolved(first) THEN ChunkStreams
                                  ELSE {NoStream} } :
                   first \in FirstReplies }

\* What the Hugging Face API may do with the POST of send_message: no
\* answer, an error status, a body that is no JSON, an empty list, a list
\* with one generation (with or without a tool_calls member of its own), a
\* generation without text, and an object without generated_text.
HFText == PyStr("Post 1 says ...")
HFAnswers ==
    { Failure("Timeout"),
      HttpResponse(503, PyStr("Service Unavailable")),
      HttpResponse(200, InvalidJson),
      HttpResponse(200, PyList(<<>>)),
      HttpResponse(200, PyList(<<HFGenerated(HFText, Absent)>>)),
      HttpResponse(200,
          PyList(<<HFGenerated(HFText,
                       PyList(<<CallObject(PyStr("call_b"),
                                           Function(PyStr("list_users"),
                                                    EmptyArguments))>>))>>)),
      HttpResponse(200, PyList(<<HFGenerated(Absent, Absent)>>)),
      HttpResponse(200, HFGenerated(Absent, Absent)) }

\* Lines of the body of a streamed answer: an empty line, lines with a
\* token, one of them with an empty text, and a line without a token; the
\* body ends after the first of them or the read fails there.
TokenLine(text) == JsonDumps([t |-> "dict", token |-> [text |-> text]])
Lines ==
    << PyStr(""), TokenLine(PyStr("Post")), TokenLine(PyStr("")),
       JsonDumps([t |-> "dict", token |-> Absent]), TokenLine(PyStr(" 1")) >>
LineStreams ==
    { [chunks |-> SubSeq(Lines, 1, k), fails |-> f] :
        k \in 0..MaxChunks, f \in BOOLEAN }

\* What the peers answer in one call of process_message made with the
\* Hugging Face adapter.
HFProcessEnvs ==
    UNION { { [fault |-> c[1], first |-> HuggingFaceClient_send_message(c[2]),
               tools |-> tools, second |-> second, stream |-> NoStream,
               provider |-> "huggingface", answer |-> c[2]] :
                tools \in [1..Len(Intents(HuggingFaceClient_send_message(c[2])))
                             -> StreamToolOutcomes],
                second \in IF Intents(HuggingFaceClient_send_message(c[2])) = <<>>
                           THEN {NotQueried}
                           ELSE {Ok(Reply(PyStr("There are ten users."), PyNone))} } :
            c \in Faults \X HFAnswers }

\* What they answer in one call of stream_message made with it.
HFStreamAnswers ==
    { a \in HFAnswers : a.k = "response" => (a.status = 200 /\ IsList(a.body)) }
HFStreamEnvs ==
    { [fault |-> Failure("Exception"), first |-> NotQueried, tools |-> <<>>,
       second |-> NotQueried, stream |-> stream,
       provider |-> "huggingface", answer |-> Unasked] : stream \in LineStreams }
      \cup UNION { { [fault |-> Absent,
                      first |-> HuggingFaceClient_send_message(a),
                      tools |-> tools, second |-> NotQueried, stream |-> stream,
                      provider |-> "huggingface", answer |-> a] :
                       tools \in [1..Len(Intents(HuggingFaceClient_send_message(a)))
                                    -> StreamToolOutcomes],
                       stream \in IF FirstResolved(HuggingFaceClient_send_message(a))
                                  THEN LineStreams ELSE {NoStream} } :
                   a \in HFStreamAnswers }

Turn(method, user_message, history, env) ==
    [method |-> method, user_message |-> user_message,
     conversation_history |-> history, env |-> env]
NoTurn == [method |-> "none"]

\* Every run of process_message.
process_message_runs ==
    { [ turn |-> Turn("process_message", c[1], c[2], c[3]),
        run |-> process_message(AgentOrchestrator(PyNone), c[1], "history",
                                ListsAtCall(c[2]), c[3]) ] :
      c \in UserMessages \X Histories \X (ProcessEnvs \cup HFProcessEnvs) }

\* AgentOrchestrator.validate_mcp_connection: what self.mcp.health_check()
\* gives.
validate_mcp_connection(outcome) == MCPClient_health_check(outcome)

\* Every run of validate_mcp_connection.
validate_mcp_connection_runs ==
    { [ turn |-> [method |-> "validate_mcp_connection", probe |-> outcome],
        run |-> validate_mcp_connection(outcome) ] : outcome \in ProbeOutcomes }

\* Every generator stream_message can make.
stream_message_runs ==
    { [ turn |-> Turn("stream_message", c[1], c[2], c[3]),
        atoms |-> stream_message(AgentOrchestrator(PyNone), c[1], "history",
                                 ListsAtCall(c[2]), c[3]) ] :
      c \in UserMessages \X Histories \X (StreamEnvs \cup HFStreamEnvs) }

(***************************************************************************)
(* State machine of one orchestrator turn: process_message runs to its end *)
(* in one step; stream_message makes a generator that its consumer         *)
(* resumes fragment by fragment and may close at any yield.                *)
(***************************************************************************)
\* Index of the first yield of a generator body, one past its end if none.
FirstYield(g) ==
    IF \E i \in 1..Len(g) : g[i].a = "yield"
    THEN CHOOSE i \in 1..Len(g) :
             /\ g[i].a = "yield"
             /\ \A j \in 1..(i - 1) : g[j].a # "yield"
    ELSE Len(g) + 1

\* The calls among atoms, and the lists after their stores.
RECURSIVE Calls(_)
Calls(atoms) ==
    IF atoms = <<>> THEN <<>>
    ELSE (IF Head(atoms).a = "do" THEN <<Head(atoms).e>> ELSE <<>>)
             \o Calls(Tail(atoms))
RECURSIVE Stored(_, _)
Stored(lists, atoms) ==
    IF atoms = <<>> THEN lists
    ELSE Stored(IF Head(atoms).a = "store" THEN Head(atoms).lists ELSE lists,
                Tail(atoms))

\* orchestrator.process_message(user_message, conversation_history)
ProcessMessage ==
    /\ pc = "idle"
    /\ \E x \in process_message_runs :
          /\ turn' = x.turn
          /\ pc' = IF x.run.result.raised THEN "raised" ELSE "returned"
          /\ generator' = <<>>
          /\ heap' = x.run.lists
          /\ trace' = x.run.calls
          /\ emitted' = <<>>
          /\ returned' = x.run.result
    /\ UNCHANGED vars
    /\ UNCHANGED session_vars

\* orchestrator.validate_mcp_connection()
ValidateConnection ==
    /\ pc = "idle"
    /\ \E x \in validate_mcp_connection_runs :
          /\ turn' = x.turn
          /\ pc' = IF x.run.result.raised THEN "raised" ELSE "returned"
          /\ trace' = <<[op |-> "health_check", sent |-> x.run.sent]>>
          /\ returned' = x.run.result
    /\ UNCHANGED <<generator, heap, emitted>>
    /\ UNCHANGED vars
    /\ UNCHANGED session_vars

\* orchestrator.stream_message(user_message, conversation_history): the
\* generator is made, none of its body has run yet.
StreamMessage ==
    /\ pc = "idle"
    /\ \E x \in stream_message_runs :
          /\ turn' = x.turn
          /\ generator' = x.atoms
          /\ heap' = ListsAtCall(x.turn.conversation_history)
    /\ pc' = "created"
    /\ UNCHANGED <<trace, emitted, returned>>
    /\ UNCHANGED vars
    /\ UNCHANGED session_vars

\* next(generator): the body runs up to its next yield, or to its end.
Resume ==
    /\ pc \in {"created", "suspended"}
    /\ LET k == FirstYield(generator)
           ran == SubSeq(generator, 1, k - 1)
       IN  /\ trace' = trace \o Calls(ran)
           /\ heap' = Stored(heap, ran)
           /\ IF k <= Len(generator)
              THEN /\ emitted' = Append(emitted, generator[k].f)
                   /\ generator' = SubSeq(generator, k + 1, Len(generator))
                   /\ pc' = "suspended"
              ELSE /\ emitted' = emitted
                   /\ generator' = <<>>
                   /\ pc' = IF ran # <<>> /\ ran[Len(ran)].a = "raise"
                            THEN "raised" ELSE "exhausted"
    /\ UNCHANGED <<turn, returned>>
    /\ UNCHANGED vars
    /\ UNCHANGED session_vars

\* Whether the generator is suspended inside the loop over the provider's
\* stream.
StreamOpen ==
    /\ pc = "suspended"
    /\ \E i \in 1..Len(trace) : trace[i].op = "stream_message"

\* generator.close(), or the consumer dropping the generator: nothing more
\* of the body runs.  The provider's stream, if open, is closed when its
\* generator is finalized: at once under reference counting, at some later
\* collection otherwise.
Close ==
    /\ pc \in {"created", "suspended"}
    /\ pc' = IF pc = "created" THEN "closed" ELSE generator_close
    /\ generator' = <<>>
    /\ \E prompt \in BOOLEAN :
          trace' = IF StreamOpen /\ prompt
                   THEN Append(trace, [op |-> "release"])
                   ELSE trace
    /\ UNCHANGED <<turn, heap, emitted, returned>>
    /\ UNCHANGED vars
    /\ UNCHANGED session_vars

NextAgent ==
    \/ ValidateConnection
    \/ ProcessMessage
    \/ StreamMessage
    \/ Resume
    \/ Close

\* The chat agent is a process of its own: the build of the tool server's
\* validation library plays no part in it.
InitAgent == Init /\ build = FALSE

SpecAgent == InitAgent /\ [][NextAgent]_all_vars

(***************************************************************************)
(* Two sessions of one process.  The caller of a session holds the         *)
(* session's history, calls process_message on the session's orchestrator  *)
(* and appends the exchange to the history; it may change the prompt of    *)
(* its orchestrator between two turns.  A call reads self.system_prompt    *)
(* when it builds its context and talks to its peers afterwards, so that   *)
(* steps of the other session fall before, inside and after a turn.        *)
(***************************************************************************)
\* Largest number of turns of one session.
MaxTurns == 2

\* Prompts a caller may hand to update_system_prompt.
NewPrompts == {PyStr("Answer in one sentence.")}

\* What the peers answer in a turn of a session: a reply without intents,
\* or one tool call that succeeds or times out, followed by a final reply.
SessionEnvs ==
    { [fault |-> Absent, first |-> Ok(Reply(PyStr("Hello."), PyNone)),
       tools |-> <<>>, second |-> NotQueried, stream |-> NoStream,
       provider |-> "openai", answer |-> Unasked] }
      \cup { [fault |-> Absent,
              first |-> Ok(Reply(PyStr(""),
                                PyList(<<CallObject(PyStr("call_a"),
                                                    Function(PyStr("list_users"),
                                                             EmptyArguments))>>))),
              tools |-> <<o>>,
              second |-> Ok(Reply(PyStr("There are ten users."), PyNone)),
              stream |-> NoStream,
              provider |-> "openai", answer |-> Unasked] : o \in StreamToolOutcomes }

\* What a turn shows to the outside: what it returned or raised, and the
\* calls it made, with the context of every query and every tool call.
Shown(run) == [result |-> run.result, calls |-> run.calls]

\* The history after the caller has appended the exchange of a turn.
Appended(history, user_message, result) ==
    history
      \o << Message("user", user_message),
            Message("assistant",
                    IF result.raised THEN Fmt("**Error:** ", result.msg)
                    ELSE result.value[1]) >>

\* The caller of session s calls process_message: the context is built
\* from the history and from self.system_prompt as they are now.
Begin(s) ==
    /\ sessions[s].call = NoCall
    /\ sessions[s].turns < MaxTurns
    /\ \E user_message \in UserMessages :
          sessions' =
              [sessions EXCEPT ![s].call =
                  [ user_message |-> user_message,
                    self |-> instances[s],
                    alone |-> sessions[s].alone.self,
                    at |-> instances ]]
    /\ UNCHANGED <<instances, app>>
    /\ UNCHANGED vars
    /\ UNCHANGED agent_vars

\* The call of session s runs to its end and the caller appends the
\* exchange to the session's history.
Finish(s) ==
    /\ sessions[s].call # NoCall
    /\ \E env \in SessionEnvs :
          LET call == sessions[s].call
              run == process_message(call.self, call.user_message, "history",
                                     ListsAtCall(sessions[s].history), env)
              alone == process_message(call.alone, call.user_message, "history",
                                       ListsAtCall(sessions[s].alone.history),
                                       env)
          IN  sessions' =
                  [sessions EXCEPT ![s] =
                      [ history |-> Appended(run.lists.history, call.user_message,
                                             run.result),
                        call |-> NoCall,
                        last |-> [run |-> Shown(run), alone |-> Shown(alone),
                                  at |-> call.at],
                        turns |-> sessions[s].turns + 1,
                        alone |-> [self |-> sessions[s].alone.self,
                                   history |-> Appended(alone.lists.history,
                                                        call.user_message,
                                                        alone.result)] ]]
    /\ UNCHANGED <<instances, app>>
    /\ UNCHANGED vars
    /\ UNCHANGED agent_vars

\* The caller of session s, between two turns, calls update_system_prompt
\* on the session's orchestrator.
UpdateSystemPrompt(s) ==
    /\ sessions[s].call = NoCall
    /\ \E new_prompt \in NewPrompts :
          /\ instances' = update_system_prompt(instances, s, new_prompt)
          /\ sessions' = [sessions EXCEPT ![s].alone.self.system_prompt = new_prompt]
    /\ UNCHANGED app
    /\ UNCHANGED vars
    /\ UNCHANGED agent_vars

NextSessions ==
    \E s \in Sessions :
        \/ Begin(s)
        \/ Finish(s)
        \/ UpdateSystemPrompt(s)

SpecSessions == InitAgent /\ [][NextSessions]_all_vars

(***************************************************************************)
(* One browser session of the chat front-end.  Every step is one run of    *)
(* the script: the user changes a widget of the sidebar, presses Clear     *)
(* Conversation, or sends a message.                                       *)
(***************************************************************************)
\* Largest number of messages the user sends.
MaxInputs == 3

\* What consuming the stream of a turn gives.
Streamed ==
    { Ok(PyStr("Post 1 says ...")), Raise("Exception", PyStr("render failed")) }

\* The user changes the sidebar: render_sidebar returns other values.
RenderSidebar ==
    /\ \E config \in Configs \ {app.config} :
          app' = [app EXCEPT !.config = config, !.event = "sidebar"]
    /\ UNCHANGED <<instances, sessions>>
    /\ UNCHANGED vars
    /\ UNCHANGED agent_vars

\* The Clear Conversation button.
ClearConversation ==
    /\ app' = [app EXCEPT !.session_state.messages = <<>>,
                          !.session_state.agent = PyNone,
                          !.event = "clear"]
    /\ UNCHANGED <<instances, sessions>>
    /\ UNCHANGED vars
    /\ UNCHANGED agent_vars

\* The user sends a message: process_user_input runs with the config of
\* the sidebar as it is now.
ProcessUserInput ==
    /\ app.inputs < MaxInputs
    /\ \E user_input \in UserMessages, streamed \in Streamed,
          built \in { Ok(NewAgent(app.config, app.made + 1)),
                      Raise("ImportError", PyStr("package required")) } :
          LET ran == process_user_input(app.session_state, user_input,
                                        app.config, built, streamed)
          IN  app' = [ session_state |-> ran.session_state,
                       config |-> app.config,
                       inputs |-> app.inputs + 1,
                       made |-> IF ran.session_state.agent
                                      # app.session_state.agent
                                THEN app.made + 1 ELSE app.made,
                       event |-> "input",
                       agent |-> ran.agent ]
    /\ UNCHANGED <<instances, sessions>>
    /\ UNCHANGED vars
    /\ UNCHANGED agent_vars

NextApp ==
    \/ RenderSidebar
    \/ ClearConversation
    \/ ProcessUserInput

SpecApp == InitAgent /\ [][NextApp]_all_vars

(***************************************************************************)
(* Properties of the dispatcher and of the tool executor.                  *)
(***************************************************************************)
JsonRpcBranches ==
    { "invalid_request", "initialize", "notifications/initialized", "tools/list",
      "tools/call", "method_not_found" }

\* The request last served was a body POSTed to / or /mcp.
JsonRpcServed == dispatched \in JsonRpcBranches

\* It was a JSON object whose jsonrpc member is "2.0".
WellFormed == JsonRpcServed /\ IsDict(request) /\ request.jsonrpc = PyStr("2.0")

\* It was a well-formed request for method m.
RequestFor(m) == WellFormed /\ request.method = PyStr(m)

\* The handler answered with a JSON-RPC response object.
Answered == response.t = "response"
IsResult == Answered /\ response.body.result # Absent /\ response.body.error = Absent
IsError == Answered /\ response.body.error # Absent /\ response.body.result = Absent
ErrorCode(code) == IsError /\ response.body.error.code = code

\* No tool ran: no ToolResult was built and the provider was not contacted.
NoToolExecuted == envelope = NoEnvelope /\ sent = <<>>

\* C1: every payload POSTed to the dispatcher, whatever its method and the
\* shape of its params, is answered by a response object holding exactly one
\* of result / error, whose id is the id of the request (null when the
\* payload is no object); no request ends in a fault.
C1_EveryPayloadAnswered ==
    JsonRpcServed =>
        /\ Answered
        /\ IsResult \/ IsError
        /\ response.body.id = (IF IsDict(request) THEN Get(request.id) ELSE PyNone)

\* The protocolVersion an initialize request asks for, None when it has none.
RequestedVersion ==
    IF request.params # Absent /\ IsDict(request.params)
    THEN Get(request.params.protocolVersion)
    ELSE PyNone

\* C2: an initialize request is never answered by an error; the version in
\* the result is the requested one when it is "2025-11-05", "2025-06-18" or
\* "2025-03-26", and "2025-11-05" when it is anything else, is missing, or
\* params is no object; so it is always one of the three.
C2_InitializeNegotiates ==
    RequestFor("initialize") =>
        /\ IsResult
        /\ response.body.result.protocolVersion =
              (IF RequestedVersion \in
                      {PyStr("2025-11-05"), PyStr("2025-06-18"), PyStr("2025-03-26")}
               THEN RequestedVersion
               ELSE PyStr("2025-11-05"))
        /\ response.body.result.protocolVersion \in
              {PyStr("2025-11-05"), PyStr("2025-06-18"), PyStr("2025-03-26")}
\* initialize asked for "2099-01-01" and was given "2025-11-05".
C2_Witness ==
    /\ RequestFor("initialize")
    /\ RequestedVersion = PyStr("2099-01-01")
    /\ IsResult
    /\ response.body.result.protocolVersion = PyStr("2025-11-05")

\* The payload last POSTed is no object, or its jsonrpc member is not "2.0".
Malformed == JsonRpcServed /\ (~IsDict(request) \/ request.jsonrpc # PyStr("2.0"))

\* C3: a payload that is no object, or whose jsonrpc member is not "2.0", is
\* answered by error -32600 before any dispatch on its method: no method
\* branch runs and no tool is executed, whatever the method.
C3_MalformedIsInvalidRequest ==
    Malformed =>
        /\ ErrorCode(-32600)
        /\ dispatched = "invalid_request"
        /\ NoToolExecuted
\* A tools/call that names a tool, sent with a jsonrpc member other than "2.0".
C3_Witness ==
    /\ Malformed
    /\ IsDict(request)
    /\ request.method = PyStr("tools/call")
    /\ request.params # Absent
    /\ ErrorCode(-32600)
    /\ NoToolExecuted

KnownMethods ==
    { PyStr("initialize"), PyStr("notifications/initialized"), PyStr("tools/list"),
      PyStr("tools/call") }

\* C4: a well-formed request whose method is none of initialize,
\* notifications/initialized, tools/list, tools/call (a missing method
\* included) is answered by error -32601 whose message names the method, and
\* no tool is executed.
C4_UnknownMethodNotFound ==
    (WellFormed /\ request.method \notin KnownMethods) =>
        /\ ErrorCode(-32601)
        /\ response.body.error.message = Fmt("Method not found: ", Get(request.method))
        /\ NoToolExecuted
\* resources/list was asked for and refused by name.
C4_Witness ==
    /\ RequestFor("resources/list")
    /\ ErrorCode(-32601)
    /\ response.body.error.message.arg = PyStr("resources/list")
    /\ NoToolExecuted

\* The params of a tools/call request, when they are an object.
CallParamsGiven ==
    RequestFor("tools/call") /\ request.params # Absent /\ IsDict(request.params)

\* A tools/call request that gives no name, or a blank one.
BlankNames == {PyNone, PyStr(""), PyStr("  ")}
NameIsBlank ==
    /\ RequestFor("tools/call")
    /\ \/ ~CallParamsGiven
       \/ Get(request.params.name) \in BlankNames

\* C5: a tools/call request whose name is missing or blank (null, the empty
\* string, blanks only) is answered by error -32602, and neither the Tool
\* Executor nor the Content Provider is invoked for it.
C5_BlankNameIsInvalidParams ==
    NameIsBlank => ErrorCode(-32602) /\ NoToolExecuted

\* The names of the descriptors of a catalogue.
Names(catalogue) == [i \in DOMAIN catalogue |-> catalogue[i].name]

\* The catalogue the last request was answered with.
ListingServed == RequestFor("tools/list") \/ dispatched \in {"list_tools", "root"}
Catalogue ==
    IF dispatched = "tools/list" THEN response.body.result.tools ELSE response.body.items

\* C6: tools/list, GET /tools and GET / answer with exactly five descriptors,
\* named get_post, list_posts, get_comments_for_post, get_user, list_users,
\* whatever requests were served before.
C6_CatalogueIsFixed ==
    ListingServed =>
        /\ dispatched \in {"list_tools", "root"} \/ IsResult
        /\ Names(Catalogue) =
              <<"get_post", "list_posts", "get_comments_for_post", "get_user",
                "list_users">>
\* tools/list answered with five descriptors after an earlier request.
C6_Witness ==
    /\ RequestFor("tools/list")
    /\ served > 1
    /\ Len(Catalogue) = 5

\* The last request was a tools/call for which call_tool built a ToolResult.
ExecutorReached == dispatched = "tools/call" /\ envelope # NoEnvelope

\* C7: for a tools/call that reached the Tool Executor, a successful
\* envelope gives a content of exactly one text block holding str(data) and
\* isError = false; a failed envelope gives isError = true and an empty
\* content; isError is always the negation of success.
C7_ResultMirrorsEnvelope ==
    ExecutorReached =>
        /\ IsResult
        /\ response.body.result.isError = ~envelope.success
        /\ envelope.success =>
              response.body.result.content =
                  <<[type |-> "text", text |-> Str(envelope.data)]>>
        /\ ~envelope.success => response.body.result.content = <<>>
\* A call that succeeded with an object: one text block, the text of the object.
C7_Witness ==
    /\ ExecutorReached
    /\ envelope.success
    /\ envelope.data = JsonObject
    /\ response.body.result.content = <<[type |-> "text", text |-> Str(JsonObject)]>>
    /\ response.body.result.isError = FALSE

\* The tool call the last request asked for, on either route.
CalledName ==
    IF dispatched = "call_tool" THEN request.name ELSE Get(request.params.name)
CalledArguments ==
    IF dispatched = "call_tool" THEN request.arguments
    ELSE GetDefault(request.params.arguments, EmptyArguments)
\* The value given under the id argument of get_post / get_user.
CalledId ==
    IF CalledName = PyStr("get_post")
    THEN Get(CalledArguments.post_id)
    ELSE Get(CalledArguments.user_id)
\* An integer of the JSON body within lo..hi.
IntegerIn(v, lo, hi) == v.t = "int" /\ v.n >= lo /\ v.n <= hi

\* Every text the response carries: its content blocks and its error message.
ResponseTexts ==
    IF IsResult /\ "content" \in DOMAIN response.body.result
    THEN {response.body.result.content[i].text :
             i \in DOMAIN response.body.result.content}
    ELSE IF IsError THEN {response.body.error.message} ELSE {}

\* tools/call of get_user with an integer user_id that is not in 1..10.
UserOutOfRange ==
    /\ CallParamsGiven
    /\ CalledName = PyStr("get_user")
    /\ IsDict(CalledArguments)
    /\ CalledId.t = "int"
    /\ ~IntegerIn(CalledId, 1, 10)

\* C8: tools/call of get_user with an integer user_id outside 1..10 is
\* answered with isError = true and carries the error text that states the
\* 1-10 bound.
C8_OutOfRangeUserCarriesErrorText ==
    UserOutOfRange =>
        /\ IsResult
        /\ response.body.result.isError = TRUE
        /\ PyStr("user_id must be an integer between 1 and 10") \in ResponseTexts

\* The data of an envelope is an object that holds status 404.
Tagged404(data) == IsDict(data) /\ "status" \in DOMAIN data /\ data.status = 404
\* get_post or get_user was executed and the provider answered 404.
ProviderSaidAbsent ==
    /\ envelope # NoEnvelope
    /\ CalledName \in {PyStr("get_post"), PyStr("get_user")}
    /\ sent # <<>>
    /\ answered.k = "response"
    /\ answered.status = 404

\* C9: when the Content Provider answers 404 to get_post or get_user, the
\* envelope has success = true and its data is tagged with status 404.
C9_AbsentIsTagged404 ==
    ProviderSaidAbsent => envelope.success = TRUE /\ Tagged404(envelope.data)

\* get_post or get_user was executed; the id it was given is an integer in range.
IdToolExecuted ==
    envelope # NoEnvelope /\ CalledName \in {PyStr("get_post"), PyStr("get_user")}
IdIsValid ==
    IntegerIn(CalledId, 1, IF CalledName = PyStr("get_post") THEN 100 ELSE 10)

\* C10: for get_post and get_user the provider is contacted only with an
\* integer id in 1..100, respectively 1..10; any other argument gives an
\* envelope with success = false and an error text, and contacts nobody.
C10_ValidationPrecedesDelegation ==
    IdToolExecuted =>
        /\ sent # <<>> => IdIsValid
        /\ ~IdIsValid =>
              /\ envelope.success = FALSE
              /\ envelope.error # PyNone /\ envelope.error # PyStr("")
              /\ sent = <<>>

(***************************************************************************)
(* Properties of the orchestrator and of the Protocol Client.              *)
(***************************************************************************)
InProcessMessage == pc # "idle" /\ turn.method = "process_message"
InStreamMessage == pc # "idle" /\ turn.method = "stream_message"

IsQuery(e) == e.op = "send_message"
IsToolCall(e) == e.op = "call_tool"
\* The non-streaming provider queries and the tool calls made so far.
Queries == SelectSeq(trace, IsQuery)
ToolCallsMade == SelectSeq(trace, IsToolCall)

\* A reply whose tool_calls is None, no list, empty, or holds no item with
\* a function.
NoIntentsIn(reply) ==
    \/ reply.tool_calls = PyNone
    \/ ~IsList(reply.tool_calls)
    \/ \A i \in 1..Len(reply.tool_calls.items) :
           reply.tool_calls.items[i].function = Absent

\* C11: when the first reply to process_message carries no tool-call intent,
\* the method returns that reply's text with tool_calls = None, after exactly
\* one provider query and no tool execution.
C11_NoIntentsReturnsFirstText ==
    (InProcessMessage /\ ~turn.env.first.raised
       /\ NoIntentsIn(turn.env.first.value))
    => /\ returned = Ok(<<turn.env.first.value.content, PyNone>>)
       /\ Len(Queries) = 1
       /\ ToolCallsMade = <<>>

C11_Witness ==
    /\ InProcessMessage
    /\ pc = "returned"
    /\ ~turn.env.first.raised
    /\ turn.env.first.value.content = PyStr("Let me look that up.")
    /\ turn.env.first.value.tool_calls # PyNone
    /\ NoIntentsIn(turn.env.first.value)

\* The intents of the first reply, the length of the first query's context
\* and the working context of the turn.
FirstIntents == Intents(turn.env.first)
FirstContextLen == Len(turn.conversation_history) + 2
WorkingContext == heap.messages
\* What the orchestrator is to record for one executed call.
RecordedResult(call) ==
    IF call.result.raised
    THEN [t |-> "dict", error |-> Str(call.result.msg)]
    ELSE call.result.value

\* C12: a call of process_message whose first reply carries N >= 1 intents
\* executes all N in the order issued, appends exactly N tool-result
\* messages to the working context, the i-th encoding the i-th call's own
\* result, and queries the provider exactly once more.
C12_OneResultMessagePerIntent ==
    (InProcessMessage /\ Len(FirstIntents) >= 1)
    => /\ Len(ToolCallsMade) = Len(FirstIntents)
       /\ \A i \in 1..Len(ToolCallsMade) : ToolCallsMade[i].intent = i
       /\ Len(Queries) = 2
       /\ Len(WorkingContext) = FirstContextLen + 1 + Len(FirstIntents)
       /\ \A i \in 1..Len(FirstIntents) :
              WorkingContext[FirstContextLen + 1 + i]
                  = ToolResultMessage(RecordedResult(ToolCallsMade[i]))

\* Messages of the working context that follow the assistant message.
ToolResultMessages ==
    SubSeq(WorkingContext, FirstContextLen + 2, Len(WorkingContext))

\* C13: in a turn of process_message a failing tool call is recorded as
\* that call's failed result and does not end the turn: every intent is
\* executed, the failed result is among the tool-result messages and the
\* final provider query is made.
C13_FailedCallDoesNotAbortTurn ==
    (InProcessMessage /\ Len(FirstIntents) >= 1)
    => /\ Len(ToolCallsMade) = Len(FirstIntents)
       /\ Len(Queries) = 2
       /\ \A i \in 1..Len(ToolCallsMade) :
              ToolCallsMade[i].result.raised
              => \E k \in 1..Len(ToolResultMessages) :
                     ToolResultMessages[k]
                         = ToolResultMessage(RecordedResult(ToolCallsMade[i]))

IsFetch(e) == e.op = "get_tools"
\* C14: process_message makes at most one tool round: the catalogue is
\* fetched once, the provider is queried at most twice, every tool call
\* lies between the first and the second query, only the first reply's
\* intents are executed, and after a tool round the second reply's text is
\* returned with the first reply's intent list, whatever tool calls the
\* second reply carries.
C14_AtMostOneToolRound ==
    InProcessMessage
    => /\ Len(SelectSeq(trace, IsFetch)) = 1
       /\ Len(Queries) <= 2
       /\ Len(ToolCallsMade) = Len(FirstIntents)
       /\ \A j \in 1..Len(trace) :
              IsToolCall(trace[j])
              => /\ \E a \in 1..(j - 1) : IsQuery(trace[a])
                 /\ \E b \in (j + 1)..Len(trace) : IsQuery(trace[b])
       /\ (Len(FirstIntents) >= 1 /\ ~turn.env.second.raised)
          => returned = Ok(<<turn.env.second.value.content,
                             PyList(FirstIntents)>>)

C14_Witness ==
    /\ InProcessMessage
    /\ pc = "returned"
    /\ Len(ToolCallsMade) = 2
    /\ Truthy(turn.env.second.value.tool_calls)

\* C15: process_message and stream_message leave the caller's
\* conversation_history as it was when the call was made, at every point of
\* the turn: when the call has returned or raised, and while the stream is
\* being consumed, when it is exhausted and when it is abandoned.
C15_HistoryUnchanged ==
    (InProcessMessage \/ InStreamMessage)
    => heap.history = turn.conversation_history

C15_Witness ==
    /\ InStreamMessage
    /\ pc = "closed"
    /\ turn.conversation_history # <<>>
    /\ Len(WorkingContext) > FirstContextLen + 1

\* The provider's token stream: the chunks whose delta holds text, and
\* with the Hugging Face adapter the texts of the lines that hold a token.
HasToken(line) ==
    /\ Truthy(line)
    /\ line.json.token # Absent
TokenText(i) == turn.env.stream.chunks[i].json.token.text
TokenStream ==
    IF turn.env.provider = "huggingface"
    THEN LET at == SelectSeq([i \in 1..Len(turn.env.stream.chunks) |-> i],
                             LAMBDA i : HasToken(turn.env.stream.chunks[i]))
         IN  [k \in 1..Len(at) |-> TokenText(at[k])]
    ELSE SelectSeq(turn.env.stream.chunks, Truthy)
IsPrefix(s, full) == Len(s) <= Len(full) /\ SubSeq(full, 1, Len(s)) = s

\* C16: when the catalogue is empty (get_tools failed) and the provider's
\* stream does not fail, the fragments stream_message emits are the
\* provider's tokens in order and nothing else, and neither a non-streaming
\* query nor a tool call is made.
C16_EmptyCataloguePassesStreamThrough ==
    (InStreamMessage /\ turn.env.fault # Absent /\ ~turn.env.stream.fails)
    => /\ Queries = <<>>
       /\ ToolCallsMade = <<>>
       /\ IsPrefix(emitted, TokenStream)
       /\ pc = "exhausted" => emitted = TokenStream

C16_Witness ==
    /\ InStreamMessage
    /\ pc = "exhausted"
    /\ turn.env.fault # Absent
    /\ ~turn.env.stream.fails
    /\ Len(emitted) >= 2

\* C17: with a catalogue and a first reply that carries intents, a stream
\* consumed to its end holds the first reply's text as one fragment (none
\* when the text is empty), the "executing tools" marker, the "processing
\* results" marker and the tokens of the final query, and nothing else.
C17_ToolPathFragments ==
    (InStreamMessage /\ pc = "exhausted" /\ turn.env.fault = Absent
       /\ Len(FirstIntents) >= 1 /\ ~turn.env.stream.fails)
    => emitted = (IF turn.env.first.value.content # PyStr("")
                  THEN <<turn.env.first.value.content>> ELSE <<>>)
                   \o <<EXECUTING_TOOLS, PROCESSING_RESULTS>>
                   \o TokenStream

\* A fragment that describes an error, and whether the turn meets a failure.
IsErrorFragment(f) ==
    /\ "fmt" \in DOMAIN f
    /\ f.fmt \in {"Error: ", "\n\n**Error**: "}
ErrorFragments == { i \in 1..Len(emitted) : IsErrorFragment(emitted[i]) }
TurnFails ==
    \/ turn.env.stream.fails
    \/ turn.env.fault = Absent /\ ~FirstResolved(turn.env.first)

\* C18: stream_message never raises to its consumer, and a failure after k
\* fragments ends the stream with those k fragments followed by exactly one
\* fragment describing the error.
C18_FailureIsOneTrailingFragment ==
    InStreamMessage
    => /\ pc # "raised"
       /\ Cardinality(ErrorFragments) <= 1
       /\ (pc = "exhausted" /\ TurnFails) => ErrorFragments = {Len(emitted)}
       /\ ~TurnFails => ErrorFragments = {}

\* Work done for the turn: every call to a peer but the release of the
\* provider's stream.
IsWork(e) == e.op # "release"
Abandoned(at) == at \in {"closed", "ignored_exit"}

\* C19: a step that abandons the generator, and every step after it,
\* leaves the generator closed without an error, emits no fragment, and
\* makes no tool call, no provider query and no request for a token.
C19_AbandonmentStopsTheTurn ==
    [][ (Abandoned(pc') \/ Abandoned(pc))
        => /\ pc' = "closed"
           /\ emitted' = emitted
           /\ SelectSeq(trace', IsWork) = SelectSeq(trace, IsWork) ]_all_vars

C19_Witness ==
    /\ InStreamMessage
    /\ pc = "closed"
    /\ Len(FirstIntents) >= 1
    /\ emitted # <<>>
    /\ emitted[Len(emitted)] = EXECUTING_TOOLS
    /\ ToolCallsMade = <<>>

\* The kind of failure an answer to POST /call_tool is, "none" if it is not.
FailureKind(outcome) ==
    IF outcome.k = "exception" THEN outcome.exc
    ELSE IF outcome.status >= 400 THEN "status" ELSE "none"

\* C20: a timeout, a connection failure and a status >= 400 each make
\* MCPClient.call_tool raise, with messages that tell the three apart, and
\* in the orchestrator each is the failed result of the call it happened
\* to and of no other: the i-th tool-result message holds the i-th call's
\* result, failed or not.
C20_ThreeFailuresEachItsOwnCall ==
    InProcessMessage
    => /\ \A i \in 1..Len(ToolCallsMade) :
              FailureKind(turn.env.tools[i]) # "none"
              <=> ToolCallsMade[i].result.raised
       /\ \A i, j \in 1..Len(ToolCallsMade) :
              ( /\ ToolCallsMade[i].result.raised
                /\ ToolCallsMade[j].result.raised
                /\ FailureKind(turn.env.tools[i]) # FailureKind(turn.env.tools[j]) )
              => ToolCallsMade[i].result.msg # ToolCallsMade[j].result.msg
       /\ Len(ToolResultMessages) = Len(ToolCallsMade)
       /\ \A i \in 1..Len(ToolCallsMade) :
              ToolResultMessages[i]
                  = ToolResultMessage(RecordedResult(ToolCallsMade[i]))

(***************************************************************************)
(* Properties of the list tools and of unknown tool names.                 *)
(***************************************************************************)
\* call_tool built a ToolResult for the tool called `name`.
Executed(name) == envelope # NoEnvelope /\ CalledName = PyStr(name)

\* The one request list_posts sends when it is given no filter.
AllPostsRequest == [method |-> "GET", endpoint |-> PyStr("/posts"), params |-> PyNone]

\* C23: list_posts checks its optional user_id before it delegates: a user_id
\* that is given and is not an integer in 1..10 gives an envelope with
\* success = false and the provider is not asked; without a user_id the
\* provider is asked for all posts.
C23_ListPostsValidatesUserId ==
    Executed("list_posts") =>
        /\ ( /\ CalledArguments.user_id # Absent
             /\ ~IntegerIn(CalledArguments.user_id, 1, 10) )
           => envelope.success = FALSE /\ sent = <<>>
        /\ CalledArguments.user_id = Absent => sent = <<AllPostsRequest>>

\* An integer of the JSON body that is at least lo.
IntegerAtLeast(v, lo) == v.t = "int" /\ v.n >= lo

\* C24: get_comments_for_post wants an integer post_id of at least 1: a
\* post_id that is missing, no integer, zero or negative gives success = false
\* and the provider is not asked; an integer above 100 is delegated.
C24_CommentsWantPositivePostId ==
    Executed("get_comments_for_post") =>
        /\ ~IntegerAtLeast(Get(CalledArguments.post_id), 1)
           => envelope.success = FALSE /\ sent = <<>>
        /\ IntegerAtLeast(Get(CalledArguments.post_id), 101)
           => sent = <<[method |-> "GET", endpoint |-> PyStr("/comments"),
                        params |-> [postId |-> CalledArguments.post_id]]>>

\* The tools that answer with a list.
ListOperations ==
    {PyStr("list_posts"), PyStr("get_comments_for_post"), PyStr("list_users")}
\* A list operation was delegated and the provider answered with an empty list.
ProviderSaidEmpty ==
    /\ envelope # NoEnvelope
    /\ CalledName \in ListOperations
    /\ sent # <<>>
    /\ answered = HttpResponse(200, PyList(<<>>))
\* A text a person can read: a str that is not empty.
IsNote(v) == v.t = "str" /\ Truthy(v)

\* C25: when the provider answers a list operation with an empty list, the
\* envelope has success = true, its data is empty, and it carries a
\* human-readable note next to the data.
C25_EmptyListIsSuccessWithNote ==
    ProviderSaidEmpty =>
        /\ envelope.success = TRUE
        /\ ~Truthy(envelope.data)
        /\ \E f \in DOMAIN envelope \ {"success", "data"} : IsNote(envelope[f])

\* The names of the catalogue, as the strings a request gives.
CatalogueNames == {PyStr(list_tools[i].name) : i \in DOMAIN list_tools}
\* tools/call naming a tool the catalogue does not hold, by a string that is
\* not empty, with arguments that are an object or are left out.
UnknownToolCalled ==
    /\ CallParamsGiven
    /\ Get(request.params.name).t = "str"
    /\ Truthy(Get(request.params.name))
    /\ Get(request.params.name) \notin CatalogueNames
    /\ IsDict(GetDefault(request.params.arguments, EmptyArguments))

C27_DispatcherIsStateless ==
    JsonRpcServed =>
        /\ response = handle_jsonrpc(request, answered, build).response
        /\ envelope = handle_jsonrpc(request, answered, build).envelope
        /\ sent = handle_jsonrpc(request, answered, build).sent
\* A tools/call that was executed before any handshake.
ExecutedWithoutHandshake ==
    RequestFor("tools/call") /\ ~initialized /\ envelope # NoEnvelope
\* A tools/call that was executed after a handshake, as the second request.
C27_Witness ==
    /\ RequestFor("tools/call")
    /\ initialized
    /\ served > 1
    /\ envelope # NoEnvelope
    /\ envelope.success = TRUE
    /\ sent # <<>>

(***************************************************************************)
(* Properties of stream_message and of the intent extraction.              *)
(***************************************************************************)
IsStreamQuery(e) == e.op = "stream_message"
\* The streaming provider queries made so far.
StreamQueries == SelectSeq(trace, IsStreamQuery)
\* The fragments emitted so far, as a set.
Emitted == {emitted[i] : i \in 1..Len(emitted)}
\* The texts of plain fragments, joined.
RECURSIVE Joined(_)
Joined(fragments) ==
    IF fragments = <<>> THEN ""
    ELSE Head(fragments).s \o Joined(Tail(fragments))

\* stream_message with a catalogue, a first reply without intents and a
\* provider stream that does not fail.
NoIntentStream ==
    /\ InStreamMessage
    /\ turn.env.fault = Absent
    /\ ~turn.env.first.raised
    /\ NoIntentsIn(turn.env.first.value)
    /\ ~turn.env.stream.fails

\* C28: stream_message with a non-empty catalogue and a first reply without
\* intents emits the output of the first query: no marker is emitted, the
\* provider is asked nothing beyond the first query, and at the end of the
\* stream the emitted fragments, joined, are the text of the first reply.
C28_NoIntentStreamIsFirstReply ==
    NoIntentStream =>
        /\ EXECUTING_TOOLS \notin Emitted
        /\ PROCESSING_RESULTS \notin Emitted
        /\ Len(Queries) <= 1
        /\ StreamQueries = <<>>
        /\ pc = "exhausted"
           => PyStr(Joined(emitted)) = turn.env.first.value.content

\* stream_message with a catalogue and a first reply that carries intents.
ToolPath ==
    /\ InStreamMessage
    /\ turn.env.fault = Absent
    /\ Len(FirstIntents) >= 1
\* The context the final query is to be made with: the first query's
\* context, the assistant message, and one tool-result message per call made,
\* in the order the calls were issued.
FinalContext(calls) ==
    Queries[1].messages
        \o <<Message("assistant", turn.env.first.value.content)>>
        \o [i \in 1..Len(calls) |-> ToolResultMessage(RecordedResult(calls[i]))]

\* C29: on the tool path of stream_message a step makes a tool call only
\* when the "executing tools" marker was emitted before it; the "processing
\* results" marker is emitted only when every intent's call has been made
\* and has its result, failed or not; the final stream is opened only in a
\* step after that marker; and the final query's context holds one
\* tool-result message per call, in issue order.
C29_ToolPathIsOrdered ==
    [][ ToolPath' =>
          /\ Len(ToolCallsMade') > Len(ToolCallsMade)
             => EXECUTING_TOOLS \in Emitted
          /\ PROCESSING_RESULTS \in Emitted'
             => /\ Len(ToolCallsMade') = Len(FirstIntents')
                /\ \A i \in 1..Len(ToolCallsMade') : ToolCallsMade'[i].intent = i
          /\ Len(StreamQueries') > Len(StreamQueries)
             => PROCESSING_RESULTS \in Emitted
          /\ StreamQueries' # <<>>
             => StreamQueries'[1].messages = FinalContext(ToolCallsMade')
      ]_all_vars

\* Whether a str is the text of a JSON value.
IsJsonText(v) == v.t = "str" /\ "json" \in DOMAIN v
\* A tool-call structure that is absent or cannot be parsed: None, empty,
\* not iterable, made of items without a function, or holding an arguments
\* string that is not JSON.
Unparseable(tool_calls) ==
    \/ ~Truthy(tool_calls)
    \/ ~IsList(tool_calls)
    \/ \A i \in 1..Len(tool_calls.items) : tool_calls.items[i].function = Absent
    \/ \E i \in 1..Len(tool_calls.items) :
           /\ tool_calls.items[i].function # Absent
           /\ tool_calls.items[i].function.arguments.t = "str"
           /\ ~IsJsonText(tool_calls.items[i].function.arguments)

\* C30: when the tool-call structure of the first reply is absent or cannot
\* be parsed, _extract_tool_calls gives no intents without raising, and
\* process_message returns the first reply's text with no tool call made.
C30_UnparseableIsNoIntents ==
    (InProcessMessage /\ ~turn.env.first.raised
       /\ Unparseable(turn.env.first.value.tool_calls))
    => /\ _extract_tool_calls(turn.env.first.value) = Ok(PyNone)
       /\ returned = Ok(<<turn.env.first.value.content, PyNone>>)
       /\ ToolCallsMade = <<>>

(***************************************************************************)
(* Properties of the health probe.                                         *)
(***************************************************************************)
InValidateConnection == pc # "idle" /\ turn.method = "validate_mcp_connection"
\* The one request of a probe.
Probe ==
    [method |-> "GET", url |-> FmtS("", server_url, "/health"), timeout |-> 5]

ProbeTimedOut ==
    /\ InValidateConnection
    /\ turn.probe = Failure("Timeout")
    /\ returned = Ok(PyBool(FALSE))

(***************************************************************************)
(* Properties of two sessions of one process.                              *)
(***************************************************************************)
\* C22: whatever the order in which the steps of two sessions are taken,
\* every turn of a session sends the contexts, makes the tool calls and
\* returns the result it would with the other session absent, also when the
\* other session has changed the prompt of its own orchestrator; and the
\* session's history and orchestrator are those it would have alone.
C22_SessionsDoNotInterfere ==
    \A s \in Sessions :
        /\ sessions[s].last # NoRun
           => sessions[s].last.run = sessions[s].last.alone
        /\ sessions[s].history = sessions[s].alone.history
        /\ instances[s] = sessions[s].alone.self
\* Session A made a tool round under the default prompt, in a turn begun
\* after session B had changed its prompt, and B then took a turn under it.
C22_Witness ==
    /\ sessions["A"].last # NoRun
    /\ sessions["A"].last.at["B"].system_prompt # _default_system_prompt
    /\ sessions["A"].last.at["A"].system_prompt = _default_system_prompt
    /\ Len(sessions["A"].last.run.calls) = 4
    /\ sessions["A"].last.run.calls[2].messages[1]
           = Message("system", _default_system_prompt)
    /\ sessions["B"].last # NoRun
    /\ sessions["B"].last.run.calls[2].messages[1]
           = Message("system", PyStr("Answer in one sentence."))


(***************************************************************************)
(* A catalogue that cannot be fetched.                                     *)
(***************************************************************************)
\* The fragments emitted so far that describe no error.
Tokens ==
    SelectSeq(emitted, LAMBDA f : ~IsErrorFragment(f))

\* C31: when get_tools fails the turn goes on with an empty catalogue:
\* process_message queries the provider exactly once, offering no tools,
\* executes nothing and returns the reply's text with None; stream_message
\* makes no non-streaming query and no tool call and emits the tokens of the
\* provider's stream in order.
C31_FailedCatalogueDoesNotAbortTurn ==
    /\ (InProcessMessage /\ turn.env.fault # Absent)
       => /\ Len(Queries) = 1
          /\ \A i \in 1..Len(Queries) : Queries[i].tools = <<>>
          /\ ToolCallsMade = <<>>
          /\ ~turn.env.first.raised
             => returned = Ok(<<turn.env.first.value.content, PyNone>>)
    /\ (InStreamMessage /\ turn.env.fault # Absent)
       => /\ Queries = <<>>
          /\ ToolCallsMade = <<>>
          /\ IsPrefix(Tokens, TokenStream)
          /\ pc = "exhausted" => Tokens = TokenStream

C31_Witness ==
    /\ InProcessMessage
    /\ pc = "returned"
    /\ turn.env.fault # Absent
    /\ trace = <<Fetch,
                 Query(turn.conversation_history
                         \o << Message("system", _default_system_prompt),
                               Message("user", turn.user_message) >>,
                       <<>>)>>
    /\ returned = Ok(<<PyStr("Let me look that up."), PyNone>>)


(***************************************************************************)
(* Failures of the Completion Provider inside process_message.             *)
(***************************************************************************)
\* What fails in the turn, if anything does: the first query, the reading
\* of its tool calls, or the query made after the tool round.
TurnFault ==
    IF turn.env.first.raised THEN turn.env.first
    ELSE IF ~FirstResolved(turn.env.first)
         THEN _extract_tool_calls(turn.env.first.value)
    ELSE IF Len(FirstIntents) >= 1 /\ turn.env.second.raised
         THEN turn.env.second
    ELSE Ok(PyNone)

\* C32: a call of process_message in which the first query, the reading of
\* its reply or the second query fails raises RuntimeError("Agent error:
\* ...") naming that failure and returns nothing; no other call raises;
\* and when the first query fails no tool is executed and no second query
\* is made.
C32_ProviderFailureIsOneRuntimeError ==
    InProcessMessage
    => /\ TurnFault.raised
          => /\ pc = "raised"
             /\ returned = Raise("RuntimeError",
                                 Fmt("Agent error: ", TurnFault.msg))
       /\ ~TurnFault.raised => (pc = "returned" /\ ~returned.raised)
       /\ turn.env.first.raised
          => (ToolCallsMade = <<>> /\ Len(Queries) = 1)

C32_Witness ==
    /\ InProcessMessage
    /\ pc = "raised"
    /\ ~turn.env.first.raised
    /\ turn.env.second.raised
    /\ Len(ToolCallsMade) = 2
    /\ Len(Queries) = 2


(***************************************************************************)
(* Shape of the working context of process_message.                        *)
(***************************************************************************)
Roles == {"system", "user", "assistant"}
\* The context the first query is to be made with.
FirstContext ==
    turn.conversation_history
        \o << Message("system", _default_system_prompt),
              Message("user", turn.user_message) >>

\* C35: the first query of process_message is made with the caller's
\* history, one system message holding the system prompt and one user
\* message holding user_message, in that order; the query after a tool
\* round is made with that context, then one assistant message holding the
\* first reply's text, then nothing but tool-result messages of calls the
\* turn made; every message of it has the role system, user or assistant.
C35_WorkingContextShape ==
    InProcessMessage
    => /\ \A q \in 1..Len(Queries) : q = 1 => Queries[q].messages = FirstContext
       /\ \A q \in 1..Len(Queries) :
              q = 2 =>
              LET context == Queries[q].messages
                  n == FirstContextLen
              IN  /\ Len(context) > n
                  /\ SubSeq(context, 1, n) = FirstContext
                  /\ context[n + 1]
                         = Message("assistant", turn.env.first.value.content)
                  /\ \A k \in (n + 2)..Len(context) :
                         \E i \in 1..Len(ToolCallsMade) :
                             context[k] = Message("user",
                                 Fmt("Tool result: ",
                                     JsonDumps(RecordedResult(ToolCallsMade[i]))))
                  /\ \A k \in 1..Len(context) : context[k].role \in Roles

C35_Witness ==
    /\ InProcessMessage
    /\ Len(Queries) = 2
    /\ turn.conversation_history # <<>>
    /\ Len(Queries[2].messages) = FirstContextLen + 3
    /\ ToolCallsMade[1].result.raised
    /\ ~ToolCallsMade[2].result.raised


(***************************************************************************)
(* Retries.                                                                *)
(***************************************************************************)
\* The numbers of HTTP requests the Content Provider is sent in the runs of
\* POST /call_tool, and in those of them whose request times out.
ExecutorRequests == { Len(x.run.sent) : x \in call_tool_runs }
ExecutorRequestsOnTimeout ==
    { Len(x.run.sent) : x \in { y \in call_tool_runs :
                                   y.answer = Failure("Timeout") } }
\* Whether the turn has come to its end past the first query.
TurnDone ==
    /\ pc \in {"returned", "raised", "exhausted"}
    /\ turn.env.fault = Absent \/ InProcessMessage

EnvelopeBuilt ==
    /\ dispatched \in {"tools/call", "call_tool"}
    /\ envelope # NoEnvelope
\* A text that is not empty.
NonEmptyText(v) == v.t = "str" /\ v # PyStr("")

\* C36: every envelope call_tool returns, on either route, has a boolean
\* flag; a successful one has no error; a failed one has no data and holds
\* a non-empty error text.
C36_EnvelopeFollowsItsFlag ==
    EnvelopeBuilt
    => /\ envelope.success \in BOOLEAN
       /\ envelope.success = TRUE => envelope.error = PyNone
       /\ envelope.success = FALSE
          => /\ envelope.data = PyNone
             /\ NonEmptyText(envelope.error)

C36_Witness ==
    /\ dispatched = "call_tool"
    /\ request.name = PyStr("get_user")
    /\ answered = Failure("ConnectionError")
    /\ envelope.success = FALSE
    /\ envelope.data = PyNone
    /\ envelope.error # PyNone

\* The provider was asked and failed: no answer, a status of 400 or more
\* other than the 404 of an absent resource, or a body that is no JSON.
ProviderFailed ==
    /\ sent # <<>>
    /\ \/ answered.k = "exception"
       \/ answered.status >= 400 /\ answered.status # 404
       \/ answered.body = InvalidJson
\* The tool call asked for is refused by call_tool itself: a name that is
\* none of the five, or an id argument call_tool does not take.
RefusedByExecutor ==
    \/ CalledName \notin ToolNames
    \/ /\ CalledName \in {PyStr("get_post"), PyStr("get_user")}
       /\ \/ ~IsInstanceInt(CalledId)
          \/ IntValue(CalledId) < MIN_ID
          \/ IntValue(CalledId) > (IF CalledName = PyStr("get_post")
                                   THEN MAX_POST_ID ELSE MAX_USER_ID)
    \/ /\ CalledName = PyStr("get_comments_for_post")
       /\ ~IsInstanceInt(Get(CalledArguments.post_id))
\* The params of the tools/call last served cannot make a ToolCall.
CannotBuildToolCall ==
    \/ Get(request.params.name).t # "str"
    \/ ~IsDict(GetDefault(request.params.arguments, EmptyArguments))

Advertised ==
    LET tools == MCPClient_get_tools(Absent).value
    IN  { tools[i] : i \in 1..Len(tools) }
AdvertisedNames == { tool.name : tool \in Advertised }
AdvertisedAs(name) == CHOOSE tool \in Advertised : tool.name = name

\* Whether an arguments object is one the tool's inputSchema allows: every
\* property is an integer within minimum..maximum, or is left out when it
\* is not required.
Required(tool) ==
    { tool.inputSchema.required[i] : i \in 1..Len(tool.inputSchema.required) }
AllowedBy(tool, arguments) ==
    \A p \in tool.inputSchema.properties :
        LET v == Get(arguments[p.name])
        IN  IF v = PyNone THEN p.name \notin Required(tool)
            ELSE v.t = "int" /\ v.n >= p.minimum /\ v.n <= p.maximum

\* Every call the catalogue allows: each listed tool with each value of
\* minimum..maximum for its property, and without it when not required.
AdvertisedCalls ==
    UNION { { [name |-> tool.name, arguments |-> a] :
                a \in { a \in {EmptyArguments}
                               \cup UNION { { [EmptyArguments EXCEPT
                                                  ![p.name] = PyInt(n)] :
                                               n \in p.minimum..p.maximum } :
                                             p \in tool.inputSchema.properties } :
                         AllowedBy(tool, a) } } :
            tool \in Advertised }
\* Those of them call_tool answers without asking the provider.
AdvertisedCallsRefused ==
    { c \in AdvertisedCalls : call_tool(c, Unasked).sent = <<>> }

\* call_tool answered "Unknown tool".
AnsweredUnknownTool ==
    /\ envelope.success = FALSE
    /\ envelope.error = Fmt("Unknown tool: ", CalledName)

\* C34: the names get_tools lists are the names call_tool routes to an
\* operation: a call with a listed name is never answered "Unknown tool",
\* a call with any other name always is; and a call whose arguments the
\* listed tool's schema allows is not refused by call_tool but sent on to
\* the provider, for every value within the advertised bounds.
C34_CatalogueMatchesExecutor ==
    /\ EnvelopeBuilt
       => /\ CalledName \in AdvertisedNames <=> ~AnsweredUnknownTool
          /\ ( /\ CalledName \in AdvertisedNames
               /\ AllowedBy(AdvertisedAs(CalledName), CalledArguments) )
             => sent # <<>>
    /\ AdvertisedNames = ToolNames
    /\ AdvertisedCalls # {}
    /\ AdvertisedCallsRefused = {}

C34_Witness ==
    /\ dispatched = "call_tool"
    /\ CalledName = PyStr("get_user")
    /\ CalledArguments.user_id = PyInt(10)
    /\ AllowedBy(AdvertisedAs(CalledName), CalledArguments)
    /\ sent # <<>>
    /\ envelope.success = TRUE


(***************************************************************************)
(* Turns made with the Hugging Face adapter.                               *)
(***************************************************************************)
\* The turn is one of process_message or stream_message made with it.
HFTurn ==
    /\ InProcessMessage \/ InStreamMessage
    /\ turn.env.provider = "huggingface"
\* The generation the API answered the query with, when it answered with
\* a list of one.
Generation == turn.env.answer.body.items[1]
Markers == {EXECUTING_TOOLS, PROCESSING_RESULTS}

\* C39: in a turn made with the Hugging Face adapter send_message reports
\* tool_calls as None whatever the body of the answer holds, so no tool is
\* executed: process_message makes exactly one query and, when the query
\* succeeds, returns its text with None; stream_message emits no marker.
C39_HuggingFaceExecutesNoTool ==
    HFTurn
    => /\ ToolCallsMade = <<>>
       /\ ~turn.env.first.raised => turn.env.first.value.tool_calls = PyNone
       /\ InProcessMessage
          => /\ Len(Queries) = 1
             /\ ~turn.env.first.raised
                => returned = Ok(<<turn.env.first.value.content, PyNone>>)
             /\ ( /\ turn.env.answer.k = "response"
                  /\ turn.env.answer.status = 200
                  /\ IsList(turn.env.answer.body)
                  /\ turn.env.answer.body.items # <<>>
                  /\ Generation.generated_text # Absent )
                => returned = Ok(<<Generation.generated_text, PyNone>>)
       /\ InStreamMessage => Emitted \cap Markers = {}

C39_Witness ==
    /\ HFTurn
    /\ InProcessMessage
    /\ pc = "returned"
    /\ turn.env.fault = Absent
    /\ turn.env.answer.k = "response"
    /\ IsList(turn.env.answer.body)
    /\ Truthy(Get(Generation.tool_calls))
    /\ returned = Ok(<<HFText, PyNone>>)


(***************************************************************************)
(* The orchestrator the chat front-end keeps.                              *)
(***************************************************************************)
Cached == app.session_state.agent
\* The orchestrator was made from the config: adapter, server URL, prompt.
MadeFrom(agent, config) ==
    /\ agent.llm = [provider |-> config.llm_provider,
                    api_key |-> config.llm_api_key, model |-> config.llm_model]
    /\ agent.mcp = config.mcp_server_url
    /\ agent.system_prompt = config.system_prompt

\* C38: once the session holds an orchestrator, a message is answered with
\* that very object, which stays the cached one, whatever the sidebar says;
\* the cached orchestrator changes only when Clear Conversation empties the
\* history and drops it, or when a message is sent while there is none, and
\* then the new one is made from the config of the sidebar; and Clear
\* Conversation always leaves an empty history and no orchestrator.
C38_AgentIsCachedUntilCleared ==
    [][ /\ (app'.inputs > app.inputs /\ Cached # PyNone)
           => /\ Cached' = Cached
              /\ app'.agent = Ok(Cached)
        /\ Cached' # Cached
           => \/ /\ app'.event = "clear"
                 /\ Cached' = PyNone
              \/ /\ Cached = PyNone
                 /\ app'.inputs > app.inputs
                 /\ app'.agent = Ok(Cached')
                 /\ MadeFrom(Cached', app.config)
        /\ (app'.event = "clear" /\ app' # app)
           => /\ app'.session_state.messages = <<>>
              /\ Cached' = PyNone
      ]_all_vars

\* The second message of a conversation was answered by the orchestrator
\* made for the first, after the provider was changed in the sidebar.
C38_Witness ==
    /\ app.event = "input"
    /\ Len(app.session_state.messages) = 4
    /\ Cached # PyNone
    /\ app.agent = Ok(Cached)
    /\ Cached.llm.provider = "openai"
    /\ app.config.llm_provider = "huggingface"

====
